---- MODULE Spec2Model ----
(***************************************************************************)
(* Sentinel detection-rule linter: the orchestrator (SentinelLinter), the  *)
(* per-file outcome (ValidationResult), the record loader and the          *)
(* validators it runs, as a state machine.                                 *)
(*                                                                         *)
(* Python strings whose characters the code inspects are sequences of      *)
(* one-character strings; YAML values are records tagged with their Python *)
(* runtime type (field t).                                                 *)
(***************************************************************************)
EXTENDS Integers, Sequences, FiniteSets, TLC

(***************************************************************************)
(* Bounds of the model.                                                    *)
(***************************************************************************)
NumFiles == 2
MaxLinters == 2

Files == 1..NumFiles

(***************************************************************************)
(* Python str primitives used by the code.                                 *)
(***************************************************************************)
Rep(c, n) == [i \in 1..n |-> c]

UpperLetters == <<"A","B","C","D","E","F","G","H","I","J","K","L","M",
                  "N","O","P","Q","R","S","T","U","V","W","X","Y","Z">>
LowerLetters == <<"a","b","c","d","e","f","g","h","i","j","k","l","m",
                  "n","o","p","q","r","s","t","u","v","w","x","y","z">>
Digits == <<"0","1","2","3","4","5","6","7","8","9">>
Whitespace == {" ", "\t", "\n"}
HexDigits == {Digits[i] : i \in 1..10} \cup {LowerLetters[i] : i \in 1..6}
                \cup {UpperLetters[i] : i \in 1..6}

LowerChar(c) ==
    IF \E i \in 1..26 : UpperLetters[i] = c
    THEN LowerLetters[CHOOSE i \in 1..26 : UpperLetters[i] = c]
    ELSE c

\* str.lower()
StrLower(s) == [i \in 1..Len(s) |-> LowerChar(s[i])]

\* str.strip(chars): drop leading and trailing characters that are in chars
StripChars(s, chars) ==
    LET keep == {i \in 1..Len(s) : s[i] \notin chars}
    IN  IF keep = {} THEN <<>>
        ELSE LET lo == CHOOSE i \in keep : \A j \in keep : i <= j
                 hi == CHOOSE i \in keep : \A j \in keep : j <= i
             IN  SubSeq(s, lo, hi)

\* str.strip()
StrStrip(s) == StripChars(s, Whitespace)

StartsWith(s, pat) == Len(s) >= Len(pat) /\ SubSeq(s, 1, Len(pat)) = pat

\* str.replace(pat, ''): left-to-right, non-overlapping
RECURSIVE StrRemove(_, _)
StrRemove(s, pat) ==
    IF s = <<>> THEN <<>>
    ELSE IF StartsWith(s, pat) THEN StrRemove(SubSeq(s, Len(pat) + 1, Len(s)), pat)
    ELSE <<Head(s)>> \o StrRemove(Tail(s), pat)

\* str(n) for a non-negative int
RECURSIVE DecimalStr(_)
DecimalStr(n) ==
    IF n < 10 THEN <<Digits[n + 1]>>
    ELSE DecimalStr(n \div 10) \o <<Digits[(n % 10) + 1]>>

(***************************************************************************)
(* YAML values, tagged with the Python type yaml.safe_load gives them.     *)
(***************************************************************************)
NoneV == [t |-> "NoneType"]
StrV(s) == [t |-> "str", s |-> s]
IntV(n) == [t |-> "int", n |-> n]
BoolV(b) == [t |-> "bool", b |-> b]
ListV(items) == [t |-> "list", items |-> items]
DictV(d) == [t |-> "dict", d |-> d]

\* the empty dict
EmptyDict == [k \in {} |-> NoneV]

\* dict.get(key) on a dict's mapping: None when the key is absent
DictGet(d, key) == IF key \in DOMAIN d THEN d[key] ELSE NoneV

\* Python truthiness of a value (bool(x))
Truthy(v) ==
    CASE v.t = "NoneType" -> FALSE
      [] v.t = "str" -> v.s # <<>>
      [] v.t = "int" -> v.n # 0
      [] v.t = "bool" -> v.b
      [] v.t = "list" -> v.items # <<>>
      [] v.t = "dict" -> DOMAIN v.d # {}
      [] OTHER -> TRUE

\* str(x)
PyStr(v) ==
    CASE v.t = "str" -> v.s
      [] v.t = "int" -> DecimalStr(v.n)
      [] v.t = "bool" -> IF v.b THEN <<"T","r","u","e">> ELSE <<"F","a","l","s","e">>
      [] v.t = "NoneType" -> <<"N","o","n","e">>
      [] v.t = "list" -> <<"[", "]">>
      [] OTHER -> <<"{", "}">>

(***************************************************************************)
(* Diagnostics (validators/base_validator.py).  A message is its template  *)
(* text plus the file names it lists.                                      *)
(***************************************************************************)
\* A field path: its template and the list indices it is formatted with,
\* e.g. FieldAt("entityMappings[i].fieldMappings[j].identifier", <<0, 1>>)
FieldAt(name, idx) == [name |-> name, idx |-> idx]
Field(name) == FieldAt(name, <<>>)
None == Field("None")

Msg(text) == [text |-> text, files |-> <<>>]
MsgFiles(text, files) == [text |-> text, files |-> files]
\* a message that names a value to use instead
MsgNaming(text, name) == [text |-> text, files |-> <<>>, names |-> <<name>>]

\* ValidationError(severity, message, field).to_dict(): the 'field' key is
\* set only when field is truthy
to_dict(severity, message, field) ==
    IF field # None /\ field # Field("")
    THEN [severity |-> severity, message |-> message, field |-> field]
    ELSE [severity |-> severity, message |-> message]

create_error(message, field) == to_dict("error", message, field)
create_warning(message, field) == to_dict("warning", message, field)

(***************************************************************************)
(* ValidationResult (linter.py): the per-file outcome.                     *)
(***************************************************************************)
NewResult(file_path) ==
    [file_path |-> file_path, errors |-> <<>>, warnings |-> <<>>, passed |-> TRUE]

Entry(validator_name, severity, message, field) ==
    [validator |-> validator_name, severity |-> severity,
     message |-> message, field |-> field]

\* faulty variant: the error is appended and passed is left as it was
add_error_keeps_passed(r, validator_name, message, field) ==
    [r EXCEPT !.errors = Append(@, [validator |-> validator_name, severity |-> "error",
                                    message |-> message, field |-> field])]

add_error(r, validator_name, message, field) ==
    [r EXCEPT !.errors = Append(@, Entry(validator_name, "error", message, field)),
              !.passed = FALSE]

\* faulty variant: a warning fails the outcome
add_warning_fails(r, validator_name, message, field) ==
    [r EXCEPT !.warnings = Append(@, [validator |-> validator_name,
                                      severity |-> "warning",
                                      message |-> message, field |-> field]),
              !.passed = FALSE]

add_warning(r, validator_name, message, field) ==
    [r EXCEPT !.warnings = Append(@, Entry(validator_name, "warning", message, field))]

(***************************************************************************)
(* The record source (utils/yaml_loader.py).  A file's content is either a *)
(* mapping, or one of the ways loading fails.                              *)
(***************************************************************************)
LoadFailures ==
    {"missing", "permission", "malformed", "nonmapping", "empty", "encoding"}

Mapping(data) == [kind |-> "mapping", data |-> data]
Unloadable(kind) == [kind |-> kind, data |-> EmptyDict]

\* faulty variant: an empty file loads as the empty mapping
load_yaml_file_accepts_empty(store, path) ==
    IF store[path].kind \in {"mapping", "empty"}
    THEN [raised |-> "no", data |-> store[path].data, message |-> Msg("")]
    ELSE [raised |-> "YAMLLoadError", data |-> EmptyDict,
          message |-> Msg("Error loading YAML file")]

\* load_yaml_file: the parsed mapping, or YAMLLoadError for every failure
\* (each except-branch re-raises as YAMLLoadError)
load_yaml_file(store, path) ==
    IF store[path].kind = "mapping"
    THEN [raised |-> "no", data |-> store[path].data, message |-> Msg("")]
    ELSE [raised |-> "YAMLLoadError", data |-> EmptyDict,
          message |-> Msg(
            CASE store[path].kind = "missing" -> "File not found"
              [] store[path].kind = "permission" -> "Permission denied reading file"
              [] store[path].kind = "malformed" -> "YAML parsing error"
              [] store[path].kind = "encoding" -> "File encoding error"
              [] OTHER -> "Error loading YAML file")]

(***************************************************************************)
(* GuidValidator (validators/guid_validator.py).                           *)
(***************************************************************************)
\* all_files: None, or the list of sibling files
NoFiles == [given |-> FALSE, files |-> <<>>]
FileList(files) == [given |-> TRUE, files |-> files]

\* int(h, 16) accepts h: surrounding whitespace, a sign, an 0x prefix and
\* single underscores between digits are allowed
IsBase16Literal(h) ==
    LET s1 == StrStrip(h)
        s2 == IF s1 # <<>> /\ s1[1] \in {"+", "-"} THEN Tail(s1) ELSE s1
        pre == Len(s2) >= 2 /\ s2[1] = "0" /\ s2[2] \in {"x", "X"}
        s3 == IF pre THEN SubSeq(s2, 3, Len(s2)) ELSE s2
        body == IF pre /\ s3 # <<>> /\ s3[1] = "_" THEN Tail(s3) ELSE s3
    IN  /\ body # <<>>
        /\ \A i \in 1..Len(body) : body[i] \in HexDigits \cup {"_"}
        /\ body[1] # "_"
        /\ body[Len(body)] # "_"
        /\ \A i \in 1..(Len(body) - 1) : ~(body[i] = "_" /\ body[i + 1] = "_")

\* what uuid.UUID(hex) parses: hex.replace('urn:', '').replace('uuid:', '')
\* .strip('{}').replace('-', '')
UuidHex(s) ==
    StrRemove(StripChars(StrRemove(StrRemove(s, <<"u","r","n",":">>),
                                   <<"u","u","i","d",":">>),
                         {"{", "}"}),
              <<"-">>)

\* uuid.UUID(value) does not raise ValueError
UuidParses(s) == Len(UuidHex(s)) = 32 /\ IsBase16Literal(UuidHex(s))

_is_valid_guid(value) ==
    IF value.t # "str" THEN FALSE ELSE UuidParses(value.s)

\* the loop of _find_duplicate_guids over all_files[k..]: the duplicates
\* found and the sibling files it loaded, in order
RECURSIVE FindDuplicatesFrom(_, _, _, _, _)
FindDuplicatesFrom(guid_norm, current_file, files, k, store) ==
    IF k > Len(files) THEN [duplicates |-> <<>>, loads |-> <<>>]
    ELSE LET other_path == files[k]
             rest == FindDuplicatesFrom(guid_norm, current_file, files, k + 1, store)
         IN  IF other_path = current_file THEN rest
             ELSE LET other_rule == load_yaml_file(store, other_path)
                      loaded == [rest EXCEPT !.loads = <<other_path>> \o @]
                  IN  IF other_rule.raised # "no" THEN loaded
                      ELSE LET other_guid == DictGet(other_rule.data, "id")
                           IN  IF other_guid = NoneV THEN loaded
                               ELSE IF StrLower(StrStrip(PyStr(other_guid))) = guid_norm
                               THEN [loaded EXCEPT !.duplicates = <<other_path>> \o @]
                               ELSE loaded

\* faulty variant: a sibling that cannot be loaded is counted as a duplicate
_find_duplicate_guids_counts_unloadable(guid, current_file, all_files, store) ==
    LET found == FindDuplicatesFrom(StrLower(StrStrip(PyStr(guid))), current_file,
                                    all_files.files, 1, store)
        failed == SelectSeq(all_files.files,
                            LAMBDA f : f # current_file /\ store[f].kind # "mapping")
    IN  [found EXCEPT !.duplicates = @ \o failed]

_find_duplicate_guids(guid, current_file, all_files, store) ==
    FindDuplicatesFrom(StrLower(StrStrip(PyStr(guid))), current_file,
                       all_files.files, 1, store)

\* faulty variant: no early return when 'id' is missing, so the format check
\* reports the missing value as well
GuidValidateNoEarlyReturn(rule_data, file_path, all_files, store) ==
    LET missing == IF "id" \notin DOMAIN rule_data
                   THEN <<create_error(Msg("Missing required field 'id'"), Field("id"))>>
                   ELSE <<>>
        guid_value == DictGet(rule_data, "id")
    IN  IF ~_is_valid_guid(guid_value)
        THEN [raised |-> FALSE, loads |-> <<>>,
              errors |-> missing \o <<create_error(
                            Msg("Field 'id' contains invalid GUID format"), Field("id"))>>]
        ELSE LET found == _find_duplicate_guids(guid_value, file_path, all_files, store)
             IN  [raised |-> FALSE, loads |-> found.loads,
                  errors |-> IF found.duplicates # <<>>
                             THEN <<create_error(
                                     MsgFiles("GUID is not unique. Also found in",
                                              found.duplicates), Field("id"))>>
                             ELSE <<>>]

\* GuidValidator.validate: the diagnostics returned and the sibling files
\* loaded on the way
GuidValidate(rule_data, file_path, all_files, store) ==
    IF "id" \notin DOMAIN rule_data
    THEN [raised |-> FALSE, loads |-> <<>>,
          errors |-> <<create_error(Msg("Missing required field 'id'"), Field("id"))>>]
    ELSE IF ~_is_valid_guid(rule_data["id"])
    THEN [raised |-> FALSE, loads |-> <<>>,
          errors |-> <<create_error(Msg("Field 'id' contains invalid GUID format"),
                                    Field("id"))>>]
    ELSE IF all_files.given /\ all_files.files # <<>>
    THEN LET found == _find_duplicate_guids(rule_data["id"], file_path, all_files, store)
         IN  [raised |-> FALSE, loads |-> found.loads,
              errors |-> IF found.duplicates # <<>>
                         THEN <<create_error(MsgFiles("GUID is not unique. Also found in",
                                                      found.duplicates), Field("id"))>>
                         ELSE <<>>]
    ELSE [raised |-> FALSE, loads |-> <<>>, errors |-> <<>>]

(***************************************************************************)
(* SchemaValidator (validators/schema_validator.py) and its reference      *)
(* tables (config/schema_definition.py).                                   *)
(***************************************************************************)
RECURSIVE ConcatTo(_, _)
ConcatTo(seqs, n) == IF n = 0 THEN <<>> ELSE ConcatTo(seqs, n - 1) \o seqs[n]

\* the concatenation of a sequence of sequences
Flatten(seqs) == ConcatTo(seqs, Len(seqs))

\* faulty variant: 'id' is left to the identifier validator
REQUIRED_FIELDS_without_id ==
    <<"name", "kind", "description", "severity", "enabled", "query",
      "queryFrequency", "queryPeriod", "triggerOperator", "triggerThreshold">>

\* the fields a record must hold, in the order they are reported
REQUIRED_FIELDS ==
    <<"id", "name", "kind", "description", "severity", "enabled", "query",
      "queryFrequency", "queryPeriod", "triggerOperator", "triggerThreshold">>

ExpType(name, path, type) == [name |-> name, path |-> path, type |-> type]

\* field path -> expected Python type, in the dict's insertion order
EXPECTED_TYPES == <<
    ExpType("id", <<"id">>, "str"),
    ExpType("name", <<"name">>, "str"),
    ExpType("displayName", <<"displayName">>, "str"),
    ExpType("version", <<"version">>, "str"),
    ExpType("lastModified", <<"lastModified">>, "str"),
    ExpType("kind", <<"kind">>, "str"),
    ExpType("description", <<"description">>, "str"),
    ExpType("severity", <<"severity">>, "str"),
    ExpType("enabled", <<"enabled">>, "bool"),
    ExpType("queryFrequency", <<"queryFrequency">>, "str"),
    ExpType("queryPeriod", <<"queryPeriod">>, "str"),
    ExpType("triggerOperator", <<"triggerOperator">>, "str"),
    ExpType("triggerThreshold", <<"triggerThreshold">>, "int"),
    ExpType("query", <<"query">>, "str"),
    ExpType("suppressionEnabled", <<"suppressionEnabled">>, "bool"),
    ExpType("tactics", <<"tactics">>, "list"),
    ExpType("relevantTechniques", <<"relevantTechniques">>, "list"),
    ExpType("entityMappings", <<"entityMappings">>, "list"),
    ExpType("customDetails", <<"customDetails">>, "dict"),
    ExpType("incidentConfiguration.createIncident",
            <<"incidentConfiguration", "createIncident">>, "bool"),
    ExpType("incidentConfiguration.groupingConfiguration.enabled",
            <<"incidentConfiguration", "groupingConfiguration", "enabled">>, "bool"),
    ExpType("incidentConfiguration.groupingConfiguration.reopenClosedIncident",
            <<"incidentConfiguration", "groupingConfiguration", "reopenClosedIncident">>,
            "bool"),
    ExpType("incidentConfiguration.groupingConfiguration.lookbackDuration",
            <<"incidentConfiguration", "groupingConfiguration", "lookbackDuration">>, "str"),
    ExpType("incidentConfiguration.groupingConfiguration.matchingMethod",
            <<"incidentConfiguration", "groupingConfiguration", "matchingMethod">>, "str"),
    ExpType("incidentConfiguration.groupingConfiguration.groupByEntities",
            <<"incidentConfiguration", "groupingConfiguration", "groupByEntities">>, "list"),
    ExpType("incidentConfiguration.groupingConfiguration.groupByAlertDetails",
            <<"incidentConfiguration", "groupingConfiguration", "groupByAlertDetails">>,
            "list"),
    ExpType("incidentConfiguration.groupingConfiguration.groupByCustomDetails",
            <<"incidentConfiguration", "groupingConfiguration", "groupByCustomDetails">>,
            "list"),
    ExpType("eventGroupingSettings.aggregationKind",
            <<"eventGroupingSettings", "aggregationKind">>, "str"),
    ExpType("alertDetailsOverride.alertDisplayNameFormat",
            <<"alertDetailsOverride", "alertDisplayNameFormat">>, "str"),
    ExpType("alertDetailsOverride.alertDescriptionFormat",
            <<"alertDetailsOverride", "alertDescriptionFormat">>, "str"),
    ExpType("alertDetailsOverride.alertTacticsColumnName",
            <<"alertDetailsOverride", "alertTacticsColumnName">>, "str"),
    ExpType("alertDetailsOverride.alertSeverityColumnName",
            <<"alertDetailsOverride", "alertSeverityColumnName">>, "str") >>

\* isinstance(value, type): bool is a subclass of int
IsInstance(value, type) ==
    value.t = type \/ (type = "int" /\ value.t = "bool")

\* faulty variant: a parent that is no dict is taken for the field itself
RECURSIVE WalkPathChecksParent(_, _, _)
WalkPathChecksParent(current, path, k) ==
    IF k > Len(path) THEN current
    ELSE IF current.t # "dict" THEN current
    ELSE LET next == DictGet(current.d, path[k])
         IN  IF next = NoneV THEN NoneV ELSE WalkPathChecksParent(next, path, k + 1)

\* the walk of _validate_field_type along path[k..]: the leaf, or None when
\* a parent is no dict or a segment is missing or null
RECURSIVE WalkPath(_, _, _)
WalkPath(current, path, k) ==
    IF k > Len(path) THEN current
    ELSE IF current.t # "dict" THEN NoneV
    ELSE LET next == DictGet(current.d, path[k])
         IN  IF next = NoneV THEN NoneV ELSE WalkPath(next, path, k + 1)

\* _validate_field_type: the error for this path, as a list of 0 or 1
_validate_field_type(data, expected) ==
    LET current == WalkPath(DictV(data), expected.path, 1)
    IN  IF current = NoneV THEN <<>>
        ELSE IF IsInstance(current, expected.type) THEN <<>>
        ELSE IF expected.type = "bool" /\ current.t = "str"
        THEN <<create_error(Msg("has incorrect type. Use true instead of 'true'"),
                            Field(expected.name))>>
        ELSE <<create_error(Msg("has incorrect type"), Field(expected.name))>>

\* faulty variant: the required-field pass asks for a value, not for the key
SchemaValidateNeedsValue(rule_data) ==
    [raised |-> FALSE, loads |-> <<>>,
     errors |->
        Flatten([i \in 1..Len(REQUIRED_FIELDS) |->
                    IF DictGet(rule_data, REQUIRED_FIELDS[i]) = NoneV
                    THEN <<create_error(Msg("Missing required field"),
                                        Field(REQUIRED_FIELDS[i]))>>
                    ELSE <<>>])
        \o Flatten([i \in 1..Len(EXPECTED_TYPES) |->
                    _validate_field_type(rule_data, EXPECTED_TYPES[i])])]

\* SchemaValidator.validate
SchemaValidate(rule_data) ==
    [raised |-> FALSE, loads |-> <<>>,
     errors |->
        Flatten([i \in 1..Len(REQUIRED_FIELDS) |->
                    IF REQUIRED_FIELDS[i] \notin DOMAIN rule_data
                    THEN <<create_error(Msg("Missing required field"),
                                        Field(REQUIRED_FIELDS[i]))>>
                    ELSE <<>>])
        \o Flatten([i \in 1..Len(EXPECTED_TYPES) |->
                    _validate_field_type(rule_data, EXPECTED_TYPES[i])])]

(***************************************************************************)
(* TimingValidator (validators/timing_validator.py).                       *)
(***************************************************************************)
IsDigit(c) == \E i \in 1..10 : Digits[i] = c
DigitValue(c) == (CHOOSE i \in 1..10 : Digits[i] = c) - 1

\* int(digits)
RECURSIVE DecimalValue(_)
DecimalValue(ds) ==
    IF ds = <<>> THEN 0
    ELSE 10 * DecimalValue(SubSeq(ds, 1, Len(ds) - 1)) + DigitValue(ds[Len(ds)])

\* re.match(r'^(\d+)([mhd])$', s): '$' also matches before one final newline
TimeBody(s) ==
    IF s # <<>> /\ s[Len(s)] = "\n" THEN SubSeq(s, 1, Len(s) - 1) ELSE s

TimeMatches(s) ==
    LET b == TimeBody(s)
    IN  /\ Len(b) >= 2
        /\ b[Len(b)] \in {"m", "h", "d"}
        /\ \A i \in 1..(Len(b) - 1) : IsDigit(b[i])

\* faulty variant: a day counted as 24 minutes
unit_multipliers_short_day(unit) ==
    CASE unit = "m" -> 1
      [] unit = "h" -> 60
      [] unit = "d" -> 24

unit_multipliers(unit) ==
    CASE unit = "m" -> 1
      [] unit = "h" -> 60
      [] unit = "d" -> 1440

\* _parse_time_value: (minutes, error); minutes is -1 for None
_parse_time_value(time_str, field_name) ==
    IF time_str.t # "str"
    THEN [minutes |-> -1,
          error |-> <<create_error(Msg("must be a string"), Field(field_name))>>]
    ELSE IF ~TimeMatches(StrLower(time_str.s))
    THEN [minutes |-> -1,
          error |-> <<create_error(Msg("has invalid format"), Field(field_name))>>]
    ELSE LET b == TimeBody(StrLower(time_str.s))
         IN  [minutes |-> DecimalValue(SubSeq(b, 1, Len(b) - 1))
                            * unit_multipliers(b[Len(b)]),
              error |-> <<>>]

NotParsed == [minutes |-> -1, error |-> <<>>]

\* TimingValidator.validate
TimingValidate(rule_data) ==
    LET query_frequency == DictGet(rule_data, "queryFrequency")
        query_period == DictGet(rule_data, "queryPeriod")
        freq == IF Truthy(query_frequency)
                THEN _parse_time_value(query_frequency, "queryFrequency")
                ELSE NotParsed
        period == IF Truthy(query_period)
                  THEN _parse_time_value(query_period, "queryPeriod")
                  ELSE NotParsed
        max_period_minutes == 14 * 24 * 60
    IN  [raised |-> FALSE, loads |-> <<>>,
         errors |->
            freq.error \o period.error
            \o (IF freq.minutes # -1 /\ period.minutes # -1
                   /\ freq.minutes > period.minutes
                THEN <<create_error(Msg("queryFrequency cannot exceed queryPeriod"),
                                    Field("queryFrequency"))>>
                ELSE <<>>)
            \o (IF period.minutes # -1 /\ period.minutes > max_period_minutes
                THEN <<create_error(Msg("queryPeriod exceeds maximum of 14 days"),
                                    Field("queryPeriod"))>>
                ELSE <<>>)]

(***************************************************************************)
(* EntityValidator (validators/entity_validator.py) and the strong-        *)
(* identifier table (config/entity_identifiers.py), in insertion order.    *)
(***************************************************************************)
ENTITY_STRONG_IDENTIFIERS == <<
    [type |-> <<"A","c","c","o","u","n","t">>,
     ids |-> <<<<"N","a","m","e">>,
              <<"F","u","l","l","N","a","m","e">>,
              <<"N","T","D","o","m","a","i","n">>,
              <<"D","n","s","D","o","m","a","i","n">>,
              <<"U","P","N","S","u","f","f","i","x">>,
              <<"S","i","d">>,
              <<"A","a","d","U","s","e","r","I","d">>,
              <<"A","a","d","T","e","n","a","n","t","I","d">>,
              <<"O","b","j","e","c","t","G","u","i","d">>,
              <<"P","U","I","D">>>>],
    [type |-> <<"H","o","s","t">>,
     ids |-> <<<<"F","u","l","l","N","a","m","e">>,
              <<"D","n","s","D","o","m","a","i","n">>,
              <<"N","T","D","o","m","a","i","n">>,
              <<"H","o","s","t","N","a","m","e">>,
              <<"N","e","t","B","i","o","s","N","a","m","e">>,
              <<"A","z","u","r","e","I","D">>,
              <<"O","M","S","A","g","e","n","t","I","D">>,
              <<"O","S","F","a","m","i","l","y">>,
              <<"O","S","V","e","r","s","i","o","n">>>>],
    [type |-> <<"I","P">>,
     ids |-> <<<<"A","d","d","r","e","s","s">>>>],
    [type |-> <<"M","a","l","w","a","r","e">>,
     ids |-> <<<<"N","a","m","e">>,
              <<"C","a","t","e","g","o","r","y">>>>],
    [type |-> <<"F","i","l","e">>,
     ids |-> <<<<"N","a","m","e">>,
              <<"D","i","r","e","c","t","o","r","y">>,
              <<"F","i","l","e","H","a","s","h","T","y","p","e">>,
              <<"F","i","l","e","H","a","s","h","V","a","l","u","e">>>>],
    [type |-> <<"P","r","o","c","e","s","s">>,
     ids |-> <<<<"P","r","o","c","e","s","s","I","d">>,
              <<"C","o","m","m","a","n","d","L","i","n","e">>,
              <<"E","l","e","v","a","t","i","o","n","T","o","k","e","n">>,
              <<"C","r","e","a","t","i","o","n","T","i","m","e","U","t","c">>>>],
    [type |-> <<"C","l","o","u","d","A","p","p","l","i","c","a","t","i","o","n">>,
     ids |-> <<<<"A","p","p","I","d">>,
              <<"N","a","m","e">>,
              <<"I","n","s","t","a","n","c","e","N","a","m","e">>>>],
    [type |-> <<"D","N","S">>,
     ids |-> <<<<"D","o","m","a","i","n","N","a","m","e">>>>],
    [type |-> <<"A","z","u","r","e","R","e","s","o","u","r","c","e">>,
     ids |-> <<<<"R","e","s","o","u","r","c","e","I","d">>>>],
    [type |-> <<"F","i","l","e","H","a","s","h">>,
     ids |-> <<<<"A","l","g","o","r","i","t","h","m">>,
              <<"V","a","l","u","e">>>>],
    [type |-> <<"R","e","g","i","s","t","r","y","K","e","y">>,
     ids |-> <<<<"H","i","v","e">>,
              <<"K","e","y">>>>],
    [type |-> <<"R","e","g","i","s","t","r","y","V","a","l","u","e">>,
     ids |-> <<<<"N","a","m","e">>,
              <<"V","a","l","u","e">>,
              <<"V","a","l","u","e","T","y","p","e">>>>],
    [type |-> <<"S","e","c","u","r","i","t","y","G","r","o","u","p">>,
     ids |-> <<<<"D","i","s","t","i","n","g","u","i","s","h","e","d","N","a","m","e">>,
              <<"S","I","D">>,
              <<"O","b","j","e","c","t","G","u","i","d">>>>],
    [type |-> <<"U","R","L">>,
     ids |-> <<<<"U","r","l">>>>],
    [type |-> <<"I","o","T","D","e","v","i","c","e">>,
     ids |-> <<<<"D","e","v","i","c","e","I","d">>,
              <<"D","e","v","i","c","e","N","a","m","e">>,
              <<"S","o","u","r","c","e">>,
              <<"I","o","T","S","e","c","u","r","i","t","y","A","g","e","n","t","I","d">>>>],
    [type |-> <<"M","a","i","l","C","l","u","s","t","e","r">>,
     ids |-> <<<<"N","e","t","w","o","r","k","M","e","s","s","a","g","e","I","d","s">>,
              <<"C","o","u","n","t","B","y","D","e","l","i","v","e","r","y","S","t","a","t","u","s">>,
              <<"C","o","u","n","t","B","y","T","h","r","e","a","t","T","y","p","e">>,
              <<"C","o","u","n","t","B","y","P","r","o","t","e","c","t","i","o","n","S","t","a","t","u","s">>,
              <<"T","h","r","e","a","t","s">>,
              <<"Q","u","e","r","y">>,
              <<"Q","u","e","r","y","T","i","m","e">>,
              <<"M","a","i","l","C","o","u","n","t">>,
              <<"S","o","u","r","c","e">>>>],
    [type |-> <<"M","a","i","l","M","e","s","s","a","g","e">>,
     ids |-> <<<<"N","e","t","w","o","r","k","M","e","s","s","a","g","e","I","d">>,
              <<"R","e","c","i","p","i","e","n","t">>,
              <<"U","r","l","s">>,
              <<"T","h","r","e","a","t","s">>,
              <<"S","e","n","d","e","r">>,
              <<"P","1","S","e","n","d","e","r">>,
              <<"P","2","S","e","n","d","e","r">>,
              <<"S","u","b","j","e","c","t">>,
              <<"B","o","d","y","F","i","n","g","e","r","p","r","i","n","t","B","i","n","1">>,
              <<"A","n","t","i","s","p","a","m","D","i","r","e","c","t","i","o","n">>,
              <<"D","e","l","i","v","e","r","y","A","c","t","i","o","n">>,
              <<"D","e","l","i","v","e","r","y","L","o","c","a","t","i","o","n">>>>],
    [type |-> <<"M","a","i","l","b","o","x">>,
     ids |-> <<<<"M","a","i","l","b","o","x","P","r","i","m","a","r","y","A","d","d","r","e","s","s">>,
              <<"D","i","s","p","l","a","y","N","a","m","e">>,
              <<"U","p","n">>,
              <<"E","x","t","e","r","n","a","l","D","i","r","e","c","t","o","r","y","O","b","j","e","c","t","I","d">>>>],
    [type |-> <<"S","u","b","m","i","s","s","i","o","n","M","a","i","l">>,
     ids |-> <<<<"S","u","b","m","i","s","s","i","o","n","I","d">>,
              <<"S","u","b","m","i","t","t","e","r">>,
              <<"N","e","t","w","o","r","k","M","e","s","s","a","g","e","I","d">>,
              <<"R","e","c","i","p","i","e","n","t">>,
              <<"S","e","n","d","e","r">>,
              <<"S","u","b","j","e","c","t">>>>] >>

\* the position of an entity type among the table's keys, 0 when it is no key
EntityTypeIndex(s) ==
    IF \E i \in 1..Len(ENTITY_STRONG_IDENTIFIERS) : ENTITY_STRONG_IDENTIFIERS[i].type = s
    THEN CHOOSE i \in 1..Len(ENTITY_STRONG_IDENTIFIERS) :
            ENTITY_STRONG_IDENTIFIERS[i].type = s
    ELSE 0

Raised == [raised |-> TRUE, loads |-> <<>>, errors |-> <<>>]
Returned(errors) == [raised |-> FALSE, loads |-> <<>>, errors |-> errors]

\* _validate_strong_identifier, entered with a truthy entity_type and
\* identifier.  It raises when entity_type is unhashable (TypeError), when
\* entity_type is no key of the table (self._find_correct_entity_case is no
\* attribute of the class: the function is defined at module level), and when
\* identifier has no lower() (AttributeError).
_validate_strong_identifier(entity_type, identifier, entity_idx, field_idx) ==
    IF entity_type.t \in {"list", "dict"} THEN Raised
    ELSE IF entity_type.t # "str" THEN Raised
    ELSE IF EntityTypeIndex(entity_type.s) = 0 THEN Raised
    ELSE LET strong_identifiers ==
                ENTITY_STRONG_IDENTIFIERS[EntityTypeIndex(entity_type.s)].ids
             where == FieldAt("entityMappings[i].fieldMappings[j].identifier",
                              <<entity_idx, field_idx>>)
         IN  IF strong_identifiers # <<>> /\ identifier.t # "str" THEN Raised
             ELSE LET hits == {i \in 1..Len(strong_identifiers) :
                                 StrLower(strong_identifiers[i]) = StrLower(identifier.s)}
                  IN  IF hits = {}
                      THEN Returned(<<create_warning(
                              Msg("may not be a strong identifier"), where)>>)
                      ELSE LET first == CHOOSE i \in hits : \A j \in hits : i <= j
                           IN  IF strong_identifiers[first] # identifier.s
                               THEN Returned(<<create_error(
                                       MsgNaming("Invalid identifier casing",
                                                 strong_identifiers[first]), where)>>)
                               ELSE Returned(<<>>)

\* one iteration of the loop over field_mappings
ValidateFieldMapping(entity_type, field_mapping, index, field_idx) ==
    IF field_mapping.t # "dict" THEN Returned(<<>>)
    ELSE LET identifier == DictGet(field_mapping.d, "identifier")
             column_name == DictGet(field_mapping.d, "columnName")
         IN  IF ~Truthy(identifier)
             THEN Returned(<<create_error(Msg("Field mapping missing 'identifier'"),
                        FieldAt("entityMappings[i].fieldMappings[j].identifier",
                                <<index, field_idx>>))>>)
             ELSE IF ~Truthy(column_name)
             THEN Returned(<<create_error(Msg("Field mapping missing 'columnName'"),
                        FieldAt("entityMappings[i].fieldMappings[j].columnName",
                                <<index, field_idx>>))>>)
             ELSE _validate_strong_identifier(entity_type, identifier, index, field_idx)

\* the results of a loop body run over each item: raised as soon as one
\* iteration raises, else the concatenated diagnostics
Collect(outs) ==
    IF \E i \in 1..Len(outs) : outs[i].raised THEN Raised
    ELSE Returned(Flatten([i \in 1..Len(outs) |-> outs[i].errors]))

\* what `for x in value` iterates over; iterating a number raises TypeError
Iterable(value) == value.t \in {"list", "dict", "str"}
IterItems(value) ==
    CASE value.t = "list" -> value.items
      [] value.t = "str" -> [i \in 1..Len(value.s) |-> StrV(<<value.s[i]>>)]
      [] OTHER -> <<>>

\* _validate_entity; list indices are 0-based as in enumerate()
_validate_entity(entity, index) ==
    IF entity.t # "dict"
    THEN Returned(<<create_error(Msg("Entity mapping must be a dictionary"),
                                 FieldAt("entityMappings[i]", <<index>>))>>)
    ELSE LET entity_type == DictGet(entity.d, "entityType")
             field_mappings == IF "fieldMappings" \in DOMAIN entity.d
                               THEN entity.d["fieldMappings"] ELSE ListV(<<>>)
         IN  IF ~Truthy(entity_type)
             THEN Returned(<<create_error(Msg("Entity mapping missing 'entityType'"),
                        FieldAt("entityMappings[i].entityType", <<index>>))>>)
             ELSE IF ~Truthy(field_mappings)
             THEN Returned(<<create_error(Msg("Entity has no fieldMappings"),
                        FieldAt("entityMappings[i].fieldMappings", <<index>>))>>)
             ELSE IF ~Iterable(field_mappings) THEN Raised
             ELSE Collect([j \in 1..Len(IterItems(field_mappings)) |->
                            ValidateFieldMapping(entity_type,
                                IterItems(field_mappings)[j], index, j - 1)])

\* faulty variant: rule_data['entityMappings'] in place of .get, a KeyError
\* when the key is absent
EntityValidateSubscript(rule_data) ==
    IF "entityMappings" \notin DOMAIN rule_data THEN Raised
    ELSE IF ~Truthy(rule_data["entityMappings"]) THEN Returned(<<>>)
    ELSE IF rule_data["entityMappings"].t # "list"
    THEN Returned(<<create_error(Msg("Field 'entityMappings' must be a list"),
                                 Field("entityMappings"))>>)
    ELSE Collect([i \in 1..Len(rule_data["entityMappings"].items) |->
                    _validate_entity(rule_data["entityMappings"].items[i], i - 1)])

\* EntityValidator.validate
EntityValidate(rule_data) ==
    LET entity_mappings == IF "entityMappings" \in DOMAIN rule_data
                           THEN rule_data["entityMappings"] ELSE ListV(<<>>)
    IN  IF ~Truthy(entity_mappings) THEN Returned(<<>>)
        ELSE IF entity_mappings.t # "list"
        THEN Returned(<<create_error(Msg("Field 'entityMappings' must be a list"),
                                     Field("entityMappings"))>>)
        ELSE Collect([i \in 1..Len(entity_mappings.items) |->
                        _validate_entity(entity_mappings.items[i], i - 1)])

(***************************************************************************)
(* KQLValidator.validate (validators/kql_validator.py).  The native parser *)
(* is the environment: env.syntax and env.semantic are what Parse and      *)
(* ParseAndAnalyze do for the query (raise, or a list of diagnostics),     *)
(* env.columns what ResultType.Columns yields.                             *)
(***************************************************************************)
ParserRaises == [raises |-> TRUE, diagnostics |-> <<>>]
ParserReturns(diagnostics) == [raises |-> FALSE, diagnostics |-> diagnostics]

\* a parser diagnostic: str(diag.Severity).lower(), and whether its message
\* matches the substrings _validate_semantics looks for
ParserDiag(severity, matches) == [severity |-> severity, matches |-> matches]

_validate_syntax(parse) ==
    IF parse.raises
    THEN <<create_error(Msg("Failed to parse KQL query"), Field("query"))>>
    ELSE Flatten([i \in 1..Len(parse.diagnostics) |->
            IF parse.diagnostics[i].severity = "error"
            THEN <<create_error(Msg("KQL syntax error"), Field("query"))>>
            ELSE IF parse.diagnostics[i].severity = "warning"
            THEN <<create_warning(Msg("KQL syntax warning"), Field("query"))>>
            ELSE <<>>])

_validate_semantics(analyze) ==
    IF analyze.raises
    THEN <<create_warning(Msg("Semantic validation failed"), Field("query"))>>
    ELSE Flatten([i \in 1..Len(analyze.diagnostics) |->
            IF ~analyze.diagnostics[i].matches THEN <<>>
            ELSE IF analyze.diagnostics[i].severity = "error"
            THEN <<create_error(Msg("KQL semantic error"), Field("query"))>>
            ELSE IF analyze.diagnostics[i].severity = "warning"
            THEN <<create_warning(Msg("KQL semantic warning"), Field("query"))>>
            ELSE <<>>])

\* _extract_output_columns: the column names, the empty set when the parser
\* raises (the exception is swallowed)
_extract_output_columns(columns) ==
    IF columns.raises THEN {} ELSE columns.names

Step(errs) == [raises |-> FALSE, errs |-> errs]
StepRaises == [raises |-> TRUE, errs |-> <<>>]

\* the loop body of _validate_entity_columns for field mapping field_idx of
\* entity idx: .get on a non-dict and hashing a list or dict raise
ColumnStep(field_mapping, output_columns, idx, field_idx) ==
    IF field_mapping.t # "dict" THEN StepRaises
    ELSE LET column_name == DictGet(field_mapping.d, "columnName")
         IN  IF ~Truthy(column_name) THEN Step(<<>>)
             ELSE IF column_name.t \in {"list", "dict"} THEN StepRaises
             ELSE IF column_name.t = "str" /\ column_name.s \in output_columns
             THEN Step(<<>>)
             ELSE Step(<<create_error(
                        Msg("references column which is not present in query output"),
                        FieldAt("entityMappings[i].fieldMappings[j].columnName",
                                <<idx, field_idx>>))>>)

\* the steps of the loop over one entity's field mappings
EntitySteps(entity, output_columns, idx) ==
    IF entity.t # "dict" THEN <<StepRaises>>
    ELSE LET field_mappings == IF "fieldMappings" \in DOMAIN entity.d
                               THEN entity.d["fieldMappings"] ELSE ListV(<<>>)
         IN  IF field_mappings.t = "list"
             THEN [j \in 1..Len(field_mappings.items) |->
                     ColumnStep(field_mappings.items[j], output_columns, idx, j - 1)]
             ELSE IF field_mappings.t = "str" /\ field_mappings.s = <<>> THEN <<>>
             ELSE IF field_mappings.t = "dict" /\ DOMAIN field_mappings.d = {} THEN <<>>
             ELSE <<StepRaises>>

\* the diagnostics appended until the first step that raises, then the
\* warning of the except-branch
RECURSIVE RunSteps(_, _)
RunSteps(steps, k) ==
    IF k > Len(steps) THEN <<>>
    ELSE IF steps[k].raises
    THEN <<create_warning(Msg("Could not validate entity columns"),
                          Field("entityMappings"))>>
    ELSE steps[k].errs \o RunSteps(steps, k + 1)

_validate_entity_columns(rule_data, columns) ==
    LET entity_mappings == IF "entityMappings" \in DOMAIN rule_data
                           THEN rule_data["entityMappings"] ELSE ListV(<<>>)
        output_columns == _extract_output_columns(columns)
    IN  IF ~Truthy(entity_mappings) THEN <<>>
        ELSE IF output_columns = {} THEN <<>>
        ELSE IF entity_mappings.t # "list" THEN RunSteps(<<StepRaises>>, 1)
        ELSE RunSteps(Flatten([i \in 1..Len(entity_mappings.items) |->
                        EntitySteps(entity_mappings.items[i], output_columns, i - 1)]), 1)

\* faulty variant: the column cross-check does not wait for a clean syntax
\* pass
KQLValidateAlwaysCrossChecks(rule_data, global_state, env) ==
    IF ~Truthy(DictGet(rule_data, "query")) THEN Returned(<<>>)
    ELSE IF DictGet(rule_data, "query").t # "str"
    THEN Returned(<<create_error(Msg("Field 'query' must be a string"),
                                 Field("query"))>>)
    ELSE Returned(
            _validate_syntax(env.syntax)
            \o (IF _validate_syntax(env.syntax) = <<>> /\ global_state
                THEN _validate_semantics(env.semantic) ELSE <<>>)
            \o _validate_entity_columns(rule_data, env.columns))

\* KQLValidator.validate
KQLValidate(rule_data, global_state, env) ==
    LET query == DictGet(rule_data, "query")
        syntax_errors == _validate_syntax(env.syntax)
    IN  IF ~Truthy(query) THEN Returned(<<>>)
        ELSE IF query.t # "str"
        THEN Returned(<<create_error(Msg("Field 'query' must be a string"),
                                     Field("query"))>>)
        ELSE Returned(
                syntax_errors
                \o (IF syntax_errors = <<>> /\ global_state
                    THEN _validate_semantics(env.semantic) ELSE <<>>)
                \o (IF syntax_errors = <<>>
                    THEN _validate_entity_columns(rule_data, env.columns) ELSE <<>>))

(***************************************************************************)
(* SentinelConstraintsValidator (validators/sentinel_constraints_validator *)
(* .py).  The class is exported by the validators package; the linter does *)
(* not register it.                                                        *)
(***************************************************************************)
\* "Scheduled", "NRT"
VALID_KINDS ==
    << <<"S","c","h","e","d","u","l","e","d">>,
       <<"N","R","T">> >>

\* "Informational", "Low", "Medium", "High"
VALID_SEVERITIES ==
    << <<"I","n","f","o","r","m","a","t","i","o","n","a","l">>,
       <<"L","o","w">>,
       <<"M","e","d","i","u","m">>,
       <<"H","i","g","h">> >>

\* "GreaterThan", "LessThan", "Equal", "gt", "lt", "eq"
VALID_TRIGGER_OPERATORS ==
    << <<"G","r","e","a","t","e","r","T","h","a","n">>,
       <<"L","e","s","s","T","h","a","n">>,
       <<"E","q","u","a","l">>,
       <<"g","t">>,
       <<"l","t">>,
       <<"e","q">> >>

\* the MITRE ATT&CK v13 tactics, without spaces
VALID_TACTICS ==
    << <<"R","e","c","o","n","n","a","i","s","s","a","n","c","e">>,
       <<"R","e","s","o","u","r","c","e","D","e","v","e","l","o","p","m","e","n","t">>,
       <<"I","n","i","t","i","a","l","A","c","c","e","s","s">>,
       <<"E","x","e","c","u","t","i","o","n">>,
       <<"P","e","r","s","i","s","t","e","n","c","e">>,
       <<"P","r","i","v","i","l","e","g","e","E","s","c","a","l","a","t","i","o","n">>,
       <<"D","e","f","e","n","s","e","E","v","a","s","i","o","n">>,
       <<"C","r","e","d","e","n","t","i","a","l","A","c","c","e","s","s">>,
       <<"D","i","s","c","o","v","e","r","y">>,
       <<"L","a","t","e","r","a","l","M","o","v","e","m","e","n","t">>,
       <<"C","o","l","l","e","c","t","i","o","n">>,
       <<"C","o","m","m","a","n","d","A","n","d","C","o","n","t","r","o","l">>,
       <<"E","x","f","i","l","t","r","a","t","i","o","n">>,
       <<"I","m","p","a","c","t">> >>

\* "SingleAlert", "AlertPerResult"
VALID_AGGREGATION_KINDS ==
    << <<"S","i","n","g","l","e","A","l","e","r","t">>,
       <<"A","l","e","r","t","P","e","r","R","e","s","u","l","t">> >>

MAX_NAME_LENGTH == 50
MAX_DESCRIPTION_LENGTH == 255
MAX_QUERY_LENGTH == 10000
MAX_TRIGGER_THRESHOLD == 10000
MAX_ENTITY_MAPPINGS == 10
MAX_FIELD_MAPPINGS_PER_ENTITY == 3
MAX_CUSTOM_DETAILS == 20
MAX_ALERT_NAME_LENGTH == 256
MAX_ALERT_DESCRIPTION_LENGTH == 5000
MAX_ALERT_PARAMETERS == 3

\* value in values, for a list of strings
InList(value, values) ==
    value.t = "str" /\ \E i \in 1..Len(values) : values[i] = value.s

\* the number a bool or an int compares as
IntOf(value) == IF value.t = "bool" THEN (IF value.b THEN 1 ELSE 0) ELSE value.n

\* len(value) of a str, list or dict
PyLen(value) ==
    CASE value.t = "str" -> Len(value.s)
      [] value.t = "list" -> Len(value.items)
      [] value.t = "dict" -> Cardinality(DOMAIN value.d)

\* `not x or not x.strip()`: "empty" when the value is falsy or blank, a
\* raise (AttributeError) when a truthy value has no strip(), else "given"
EmptyCheck(value) ==
    IF ~Truthy(value) THEN "empty"
    ELSE IF value.t # "str" THEN "raises"
    ELSE IF StrStrip(value.s) = <<>> THEN "empty"
    ELSE "given"

\* the check shared by kind, severity and triggerOperator
EnumField(rule_data, field, values) ==
    LET value == DictGet(rule_data, field)
    IN  CASE EmptyCheck(value) = "raises" -> Raised
          [] EmptyCheck(value) = "empty" ->
                Returned(<<create_error(Msg("cannot be empty"), Field(field))>>)
          [] OTHER ->
                IF ~InList(value, values)
                THEN Returned(<<create_error(Msg("has invalid value"), Field(field))>>)
                ELSE Returned(<<>>)

_validate_kind(rule_data) == EnumField(rule_data, "kind", VALID_KINDS)
_validate_severity(rule_data) == EnumField(rule_data, "severity", VALID_SEVERITIES)
_validate_trigger_operator(rule_data) ==
    EnumField(rule_data, "triggerOperator", VALID_TRIGGER_OPERATORS)

_validate_trigger_threshold(rule_data) ==
    LET trigger_threshold == DictGet(rule_data, "triggerThreshold")
    IN  IF trigger_threshold = NoneV THEN Returned(<<>>)
        ELSE IF ~IsInstance(trigger_threshold, "int")
        THEN Returned(<<create_error(Msg("must be an integer"),
                                     Field("triggerThreshold"))>>)
        ELSE IF IntOf(trigger_threshold) < 0
                \/ IntOf(trigger_threshold) > MAX_TRIGGER_THRESHOLD
        THEN Returned(<<create_error(Msg("must be between 0 and 10000"),
                                     Field("triggerThreshold"))>>)
        ELSE Returned(<<>>)

\* one iteration of the loop of _validate_tactics
ValidateTactic(tactic, idx) ==
    IF tactic.t # "str"
    THEN <<create_error(Msg("Tactic must be a string"), FieldAt("tactics[i]", <<idx>>))>>
    ELSE IF InList(tactic, VALID_TACTICS) THEN <<>>
    ELSE IF InList(StrV(StrRemove(tactic.s, <<" ">>)), VALID_TACTICS)
    THEN <<create_error(Msg("Tactic contains spaces"), FieldAt("tactics[i]", <<idx>>))>>
    ELSE <<create_error(Msg("is not a valid MITRE ATT&CK v13 tactic"),
                        FieldAt("tactics[i]", <<idx>>))>>

_validate_tactics(rule_data) ==
    LET tactics == DictGet(rule_data, "tactics")
    IN  IF ~Truthy(tactics) THEN Returned(<<>>)
        ELSE IF tactics.t # "list"
        THEN Returned(<<create_error(Msg("Field 'tactics' must be a list"),
                                     Field("tactics"))>>)
        ELSE Returned(Flatten([i \in 1..Len(tactics.items) |->
                                  ValidateTactic(tactics.items[i], i - 1)]))

\* re.match(r'^T(\d{4})(?:\.(\d{1,3}))?$', technique): '$' also matches
\* before one final newline
TechniqueMatches(technique) ==
    LET b == TimeBody(technique)
    IN  /\ Len(b) \in {5, 7, 8, 9}
        /\ b[1] = "T"
        /\ \A i \in 2..5 : IsDigit(b[i])
        /\ Len(b) > 5 => (b[6] = "." /\ \A i \in 7..Len(b) : IsDigit(b[i]))

_is_valid_technique_format(technique) ==
    IF ~TechniqueMatches(technique) THEN FALSE
    ELSE LET b == TimeBody(technique)
             technique_num == DecimalValue(SubSeq(b, 2, 5))
         IN  IF technique_num < 1000 \/ technique_num > 1999 THEN FALSE
             ELSE IF Len(b) > 5
             THEN LET sub_technique_num == DecimalValue(SubSeq(b, 7, Len(b)))
                  IN  ~(sub_technique_num < 1 \/ sub_technique_num > 999)
             ELSE TRUE

\* one iteration of the loop of _validate_relevant_techniques
ValidateTechnique(technique, idx) ==
    IF technique.t # "str"
    THEN <<create_error(Msg("Technique must be a string"),
                        FieldAt("relevantTechniques[i]", <<idx>>))>>
    ELSE IF ~_is_valid_technique_format(technique.s)
    THEN <<create_error(Msg("Technique has invalid format"),
                        FieldAt("relevantTechniques[i]", <<idx>>))>>
    ELSE <<>>

_validate_relevant_techniques(rule_data) ==
    LET techniques == DictGet(rule_data, "relevantTechniques")
    IN  IF ~Truthy(techniques) THEN Returned(<<>>)
        ELSE IF techniques.t # "list"
        THEN Returned(<<create_error(Msg("Field 'relevantTechniques' must be a list"),
                                     Field("relevantTechniques"))>>)
        ELSE Returned(Flatten([i \in 1..Len(techniques.items) |->
                                  ValidateTechnique(techniques.items[i], i - 1)]))

\* the length ceiling shared by name, description and query
MaxLength(rule_data, field, max) ==
    LET value == DictGet(rule_data, field)
    IN  IF Truthy(value) /\ value.t = "str" /\ Len(value.s) > max
        THEN <<create_error(Msg("exceeds maximum length"), Field(field))>>
        ELSE <<>>

_validate_name_constraints(rule_data) ==
    LET name == DictGet(rule_data, "name")
    IN  Returned(MaxLength(rule_data, "name", MAX_NAME_LENGTH)
                 \o (IF Truthy(name) /\ name.t = "str" /\ name.s[Len(name.s)] = "."
                     THEN <<create_error(Msg("must not end with a period"),
                                         Field("name"))>>
                     ELSE <<>>))

_validate_description_constraints(rule_data) ==
    Returned(MaxLength(rule_data, "description", MAX_DESCRIPTION_LENGTH))

_validate_query_constraints(rule_data) ==
    Returned(MaxLength(rule_data, "query", MAX_QUERY_LENGTH))

\* re.match(r'^\d+\.\d+\.\d+$', version)
VersionMatches(version) ==
    LET b == TimeBody(version)
    IN  \E i, j \in 1..Len(b) :
            /\ 1 < i /\ i + 1 < j /\ j < Len(b)
            /\ b[i] = "." /\ b[j] = "."
            /\ \A k \in 1..Len(b) : k \notin {i, j} => IsDigit(b[k])

\* _validate_version: the isinstance check is reached by strings only, a
\* truthy value of another type has raised in version.strip() before it
_validate_version(rule_data) ==
    LET version == DictGet(rule_data, "version")
    IN  CASE EmptyCheck(version) = "raises" -> Raised
          [] EmptyCheck(version) = "empty" ->
                Returned(<<create_error(Msg("cannot be empty"), Field("version"))>>)
          [] OTHER ->
                IF ~VersionMatches(version.s)
                THEN Returned(<<create_error(Msg("has invalid format"), Field("version"))>>)
                ELSE Returned(<<>>)

_validate_event_grouping(rule_data) ==
    LET event_grouping == DictGet(rule_data, "eventGroupingSettings")
    IN  IF ~Truthy(event_grouping) THEN Returned(<<>>)
        ELSE IF event_grouping.t # "dict"
        THEN Returned(<<create_error(Msg("must be a dictionary"),
                                     Field("eventGroupingSettings"))>>)
        ELSE LET aggregation_kind == DictGet(event_grouping.d, "aggregationKind")
             IN  IF Truthy(aggregation_kind)
                    /\ ~InList(aggregation_kind, VALID_AGGREGATION_KINDS)
                 THEN Returned(<<create_error(Msg("has invalid value"),
                                    Field("eventGroupingSettings.aggregationKind"))>>)
                 ELSE Returned(<<>>)

\* one iteration of the loop over entity_mappings
FieldMappingsLimit(entity, idx) ==
    IF entity.t # "dict" THEN <<>>
    ELSE LET field_mappings == DictGet(entity.d, "fieldMappings")
         IN  IF ~Truthy(field_mappings) \/ field_mappings.t # "list" THEN <<>>
             ELSE IF Len(field_mappings.items) > MAX_FIELD_MAPPINGS_PER_ENTITY
             THEN <<create_error(Msg("exceeds maximum of field mappings"),
                                 FieldAt("entityMappings[i].fieldMappings", <<idx>>))>>
             ELSE <<>>

_validate_entity_mappings_limits(rule_data) ==
    LET entity_mappings == DictGet(rule_data, "entityMappings")
    IN  IF ~Truthy(entity_mappings) \/ entity_mappings.t # "list" THEN Returned(<<>>)
        ELSE Returned(
            (IF Len(entity_mappings.items) > MAX_ENTITY_MAPPINGS
             THEN <<create_error(Msg("exceeds maximum of mappings"),
                                 Field("entityMappings"))>>
             ELSE <<>>)
            \o Flatten([i \in 1..Len(entity_mappings.items) |->
                           FieldMappingsLimit(entity_mappings.items[i], i - 1)]))

_validate_custom_details(rule_data) ==
    LET custom_details == DictGet(rule_data, "customDetails")
    IN  IF ~Truthy(custom_details) THEN Returned(<<>>)
        ELSE IF custom_details.t # "dict"
        THEN Returned(<<create_error(Msg("must be a dictionary"), Field("customDetails"))>>)
        ELSE IF PyLen(custom_details) > MAX_CUSTOM_DETAILS
        THEN Returned(<<create_error(Msg("exceeds maximum of key/value pairs"),
                                     Field("customDetails"))>>)
        ELSE Returned(<<>>)

\* the first position from i on whose character is not in chars (Len(s) + 1
\* when there is none)
SkipWhile(s, i, chars) ==
    CHOOSE j \in i..(Len(s) + 1) :
        /\ j = Len(s) + 1 \/ s[j] \notin chars
        /\ \A k \in i..(j - 1) : s[k] \in chars

\* the characters \w matches
WordChars ==
    {UpperLetters[i] : i \in 1..26} \cup {LowerLetters[i] : i \in 1..26}
        \cup {Digits[i] : i \in 1..10} \cup {"_"}

\* r'\{\{\s*\w+\s*\}\}' matched at position i: the position after the match,
\* or 0
ParameterEndsAt(s, i) ==
    IF ~(i + 1 <= Len(s) /\ s[i] = "{" /\ s[i + 1] = "{") THEN 0
    ELSE LET word == SkipWhile(s, i + 2, Whitespace)
             after == SkipWhile(s, word, WordChars)
             close == SkipWhile(s, after, Whitespace)
         IN  IF after > word /\ close + 1 <= Len(s) /\ s[close] = "}" /\ s[close + 1] = "}"
             THEN close + 2
             ELSE 0

\* re.findall(param_pattern, value), as the positions where a match starts.
\* A match holds no '{' after its first two characters, so no two matches
\* overlap and findall returns the match at each of these positions.
FindParameters(s) == {i \in 1..Len(s) : ParameterEndsAt(s, i) # 0}

\* inner != inner.strip(), for inner = param[2:-2]
InnerWhitespace(s, i) ==
    LET param == SubSeq(s, i, ParameterEndsAt(s, i) - 1)
        inner == SubSeq(param, 3, Len(param) - 2)
    IN  inner # StrStrip(inner)

_validate_alert_format_field(value, field_name, max_length) ==
    LET where == Field(field_name)
        parameters == FindParameters(value.s)
    IN  IF value.t # "str"
        THEN <<create_error(Msg("must be a string"), where)>>
        ELSE (IF Len(value.s) > max_length
              THEN <<create_error(Msg("exceeds maximum length"), where)>> ELSE <<>>)
          \o (IF Cardinality(parameters) > MAX_ALERT_PARAMETERS
              THEN <<create_error(Msg("exceeds maximum of parameters"), where)>>
              ELSE <<>>)
          \o (IF \E i \in parameters : InnerWhitespace(value.s, i)
              THEN <<create_error(Msg("has leading or trailing whitespace"), where)>>
              ELSE <<>>)

_validate_alert_details_override(rule_data) ==
    LET alert_override == DictGet(rule_data, "alertDetailsOverride")
    IN  IF ~Truthy(alert_override) THEN Returned(<<>>)
        ELSE IF alert_override.t # "dict"
        THEN Returned(<<create_error(Msg("must be a dictionary"),
                                     Field("alertDetailsOverride"))>>)
        ELSE LET display_name == DictGet(alert_override.d, "alertDisplayNameFormat")
                 description == DictGet(alert_override.d, "alertDescriptionFormat")
             IN  Returned(
                    (IF Truthy(display_name)
                     THEN _validate_alert_format_field(display_name,
                              "alertDetailsOverride.alertDisplayNameFormat",
                              MAX_ALERT_NAME_LENGTH)
                     ELSE <<>>)
                    \o (IF Truthy(description)
                        THEN _validate_alert_format_field(description,
                                 "alertDetailsOverride.alertDescriptionFormat",
                                 MAX_ALERT_DESCRIPTION_LENGTH)
                        ELSE <<>>))

RECURSIVE Pow10(_)
Pow10(k) == IF k = 0 THEN 1 ELSE 10 * Pow10(k - 1)

\* a run of digits with single underscores between digits
IsDigitGroup(ds) ==
    /\ ds # <<>>
    /\ \A i \in 1..Len(ds) : IsDigit(ds[i]) \/ ds[i] = "_"
    /\ IsDigit(ds[1]) /\ IsDigit(ds[Len(ds)])
    /\ \A i \in 1..(Len(ds) - 1) : ~(ds[i] = "_" /\ ds[i + 1] = "_")

DigitsOf(ds) == SelectSeq(ds, IsDigit)

ValueError == [kind |-> "ValueError", n |-> 0, den |-> 1]
Ratio(kind, n, den) == [kind |-> kind, n |-> n, den |-> den]

\* the first position of character c in u, Len(u) + 1 when there is none
FirstIndex(u, c) ==
    LET hits == {i \in 1..Len(u) : u[i] = c}
    IN  IF hits = {} THEN Len(u) + 1 ELSE CHOOSE i \in hits : \A j \in hits : i <= j

\* the value of sign * whole.frac * 10^e
FloatValue(sign, whole, frac, e) ==
    IF e >= 0
    THEN Ratio("num", sign * DecimalValue(DigitsOf(whole) \o DigitsOf(frac)) * Pow10(e),
               Pow10(Len(DigitsOf(frac))))
    ELSE Ratio("num", sign * DecimalValue(DigitsOf(whole) \o DigitsOf(frac)),
               Pow10(Len(DigitsOf(frac))) * Pow10(-e))

\* digits with a point, and the exponent when the text has an "e"
FloatNumber(sign, whole, frac, has_exponent, exsign, exdigits) ==
    IF /\ (~has_exponent \/ IsDigitGroup(exdigits))
       /\ (whole = <<>> \/ IsDigitGroup(whole))
       /\ (frac = <<>> \/ IsDigitGroup(frac))
       /\ ~(whole = <<>> /\ frac = <<>>)
    THEN FloatValue(sign, whole, frac,
                    IF has_exponent THEN exsign * DecimalValue(DigitsOf(exdigits)) ELSE 0)
    ELSE ValueError

\* the mantissa and the text after the first "e"
FloatMantissa(sign, mant, has_exponent, ex) ==
    FloatNumber(sign, SubSeq(mant, 1, FirstIndex(mant, ".") - 1),
                SubSeq(mant, FirstIndex(mant, ".") + 1, Len(mant)),
                has_exponent,
                IF ex # <<>> /\ ex[1] = "-" THEN -1 ELSE 1,
                IF ex # <<>> /\ ex[1] \in {"+", "-"} THEN Tail(ex) ELSE ex)

\* the text after its sign
FloatUnsigned(sign, u) ==
    IF u \in {<<"i","n","f">>, <<"i","n","f","i","n","i","t","y">>}
    THEN Ratio("inf", sign, 1)
    ELSE IF u = <<"n","a","n">> THEN Ratio("nan", 0, 1)
    ELSE FloatMantissa(sign, SubSeq(u, 1, FirstIndex(u, "e") - 1),
                       FirstIndex(u, "e") <= Len(u),
                       SubSeq(u, FirstIndex(u, "e") + 1, Len(u)))

\* the stripped, lower-cased text
FloatSigned(s) ==
    FloatUnsigned(IF s # <<>> /\ s[1] = "-" THEN -1 ELSE 1,
                  IF s # <<>> /\ s[1] \in {"+", "-"} THEN Tail(s) ELSE s)

\* float(text) as the exact ratio n/den, "inf" (n is its sign), "nan", or
\* ValueError.  The text is: whitespace, a sign, then inf, infinity or nan,
\* or digits with a point and an exponent.
PyFloat(text) == FloatSigned(StrLower(StrStrip(text)))

\* float(duration[:-1]) scaled by the unit the lower-cased duration ends in
HoursOf(d, f) ==
    IF d = <<>> THEN ValueError
    ELSE IF d[Len(d)] = "h" THEN f
    ELSE IF d[Len(d)] = "d" THEN [f EXCEPT !.n = @ * 24]
    ELSE IF d[Len(d)] = "m" THEN [f EXCEPT !.den = @ * 60]
    ELSE ValueError

\* the stripped, lower-cased duration
HoursOfText(d) == HoursOf(d, PyFloat(SubSeq(d, 1, Len(d) - 1)))

\* _parse_duration_to_hours: the hours as a ratio, or ValueError
_parse_duration_to_hours(duration) ==
    IF duration.t # "str" THEN ValueError
    ELSE HoursOfText(StrLower(StrStrip(duration.s)))

\* hours < bound and hours > bound on what _parse_duration_to_hours returns
HoursBelow(hours, bound) ==
    \/ hours.kind = "num" /\ hours.n < bound * hours.den
    \/ hours.kind = "inf" /\ hours.n < 0
HoursAbove(hours, bound) ==
    \/ hours.kind = "num" /\ hours.n > bound * hours.den
    \/ hours.kind = "inf" /\ hours.n > 0

\* the checks on the hours of a given lookbackDuration
LookbackErrors(hours, where) ==
    IF hours.kind = "ValueError"
    THEN Returned(<<create_error(Msg("Invalid lookbackDuration format"), where)>>)
    ELSE IF HoursBelow(hours, 3)
    THEN Returned(<<create_error(Msg("lookbackDuration is too short"), where)>>)
    ELSE IF HoursAbove(hours, 24)
    THEN Returned(<<create_error(Msg("lookbackDuration is too long"), where)>>)
    ELSE Returned(<<>>)

\* the checks on a groupingConfiguration that is a dictionary
GroupingErrors(grouping_config, where) ==
    IF ~Truthy(DictGet(grouping_config.d, "enabled")) THEN Returned(<<>>)
    ELSE IF ~Truthy(DictGet(grouping_config.d, "lookbackDuration"))
    THEN Returned(<<create_error(
            Msg("When grouping is enabled, lookbackDuration must be specified"), where)>>)
    ELSE LookbackErrors(
            _parse_duration_to_hours(DictGet(grouping_config.d, "lookbackDuration")), where)

\* the checks on an incidentConfiguration that is a dictionary
IncidentErrors(grouping_config) ==
    IF grouping_config.t # "dict"
    THEN Returned(<<create_error(Msg("Field 'groupingConfiguration' must be a dictionary"),
                                 Field("incidentConfiguration.groupingConfiguration"))>>)
    ELSE GroupingErrors(grouping_config,
            Field("incidentConfiguration.groupingConfiguration.lookbackDuration"))

_validate_grouping_configuration(rule_data) ==
    LET incident_config == IF "incidentConfiguration" \in DOMAIN rule_data
                           THEN rule_data["incidentConfiguration"] ELSE DictV(EmptyDict)
    IN  IF incident_config.t # "dict"
        THEN Returned(<<create_error(Msg("Field 'incidentConfiguration' must be a dictionary"),
                                     Field("incidentConfiguration"))>>)
        ELSE IncidentErrors(IF "groupingConfiguration" \in DOMAIN incident_config.d
                            THEN incident_config.d["groupingConfiguration"]
                            ELSE DictV(EmptyDict))

\* SentinelConstraintsValidator.validate: the groups in order; an exception
\* in one group leaves validate
SentinelConstraintsValidate(rule_data) ==
    Collect(<<_validate_kind(rule_data),
              _validate_severity(rule_data),
              _validate_trigger_operator(rule_data),
              _validate_trigger_threshold(rule_data),
              _validate_tactics(rule_data),
              _validate_relevant_techniques(rule_data),
              _validate_name_constraints(rule_data),
              _validate_description_constraints(rule_data),
              _validate_query_constraints(rule_data),
              _validate_version(rule_data),
              _validate_event_grouping(rule_data),
              _validate_entity_mappings_limits(rule_data),
              _validate_custom_details(rule_data),
              _validate_alert_details_override(rule_data),
              _validate_grouping_configuration(rule_data)>>)

(***************************************************************************)
(* ASIMFieldValidator (validators/asim_field_validator.py) and its table   *)
(* of field names (config/asim_field_names.py).  The class is exported by  *)
(* the validators package; the linter does not register it.                *)
(***************************************************************************)
\* the set build_asim_field_list() returns, sorted
VALID_ASIM_FIELD_NAMES == {
    \* Account
    <<"A","c","c","o","u","n","t">>,
    \* AccountType
    <<"A","c","c","o","u","n","t","T","y","p","e">>,
    \* ActingAppId
    <<"A","c","t","i","n","g","A","p","p","I","d">>,
    \* ActingAppName
    <<"A","c","t","i","n","g","A","p","p","N","a","m","e">>,
    \* ActingAppType
    <<"A","c","t","i","n","g","A","p","p","T","y","p","e">>,
    \* ActingProcessCommandLine
    <<"A","c","t","i","n","g","P","r","o","c","e","s","s","C","o","m","m","a","n","d","L","i","n","e">>,
    \* ActingProcessCreationTime
    <<"A","c","t","i","n","g","P","r","o","c","e","s","s","C","r","e","a","t","i","o","n","T","i","m","e">>,
    \* ActingProcessCurrentDirectory
    <<"A","c","t","i","n","g","P","r","o","c","e","s","s","C","u","r","r","e","n","t","D","i","r","e","c","t","o","r","y">>,
    \* ActingProcessEndTime
    <<"A","c","t","i","n","g","P","r","o","c","e","s","s","E","n","d","T","i","m","e">>,
    \* ActingProcessFileCompany
    <<"A","c","t","i","n","g","P","r","o","c","e","s","s","F","i","l","e","C","o","m","p","a","n","y">>,
    \* ActingProcessFileDescription
    <<"A","c","t","i","n","g","P","r","o","c","e","s","s","F","i","l","e","D","e","s","c","r","i","p","t","i","o","n">>,
    \* ActingProcessFileInternalName
    <<"A","c","t","i","n","g","P","r","o","c","e","s","s","F","i","l","e","I","n","t","e","r","n","a","l","N","a","m","e">>,
    \* ActingProcessFileMD5
    <<"A","c","t","i","n","g","P","r","o","c","e","s","s","F","i","l","e","M","D","5">>,
    \* ActingProcessFileOriginalName
    <<"A","c","t","i","n","g","P","r","o","c","e","s","s","F","i","l","e","O","r","i","g","i","n","a","l","N","a","m","e">>,
    \* ActingProcessFileProduct
    <<"A","c","t","i","n","g","P","r","o","c","e","s","s","F","i","l","e","P","r","o","d","u","c","t">>,
    \* ActingProcessFileSHA1
    <<"A","c","t","i","n","g","P","r","o","c","e","s","s","F","i","l","e","S","H","A","1">>,
    \* ActingProcessFileSHA256
    <<"A","c","t","i","n","g","P","r","o","c","e","s","s","F","i","l","e","S","H","A","2","5","6">>,
    \* ActingProcessFileSHA512
    <<"A","c","t","i","n","g","P","r","o","c","e","s","s","F","i","l","e","S","H","A","5","1","2">>,
    \* ActingProcessFileVersion
    <<"A","c","t","i","n","g","P","r","o","c","e","s","s","F","i","l","e","V","e","r","s","i","o","n">>,
    \* ActingProcessGuid
    <<"A","c","t","i","n","g","P","r","o","c","e","s","s","G","u","i","d">>,
    \* ActingProcessId
    <<"A","c","t","i","n","g","P","r","o","c","e","s","s","I","d">>,
    \* ActingProcessIntegrityLevel
    <<"A","c","t","i","n","g","P","r","o","c","e","s","s","I","n","t","e","g","r","i","t","y","L","e","v","e","l">>,
    \* ActingProcessName
    <<"A","c","t","i","n","g","P","r","o","c","e","s","s","N","a","m","e">>,
    \* ActingProcessStartTime
    <<"A","c","t","i","n","g","P","r","o","c","e","s","s","S","t","a","r","t","T","i","m","e">>,
    \* ActingProcessTokenElevation
    <<"A","c","t","i","n","g","P","r","o","c","e","s","s","T","o","k","e","n","E","l","e","v","a","t","i","o","n">>,
    \* ActorDomain
    <<"A","c","t","o","r","D","o","m","a","i","n">>,
    \* ActorDomainType
    <<"A","c","t","o","r","D","o","m","a","i","n","T","y","p","e">>,
    \* ActorEmailAddress
    <<"A","c","t","o","r","E","m","a","i","l","A","d","d","r","e","s","s">>,
    \* ActorOriginalUserType
    <<"A","c","t","o","r","O","r","i","g","i","n","a","l","U","s","e","r","T","y","p","e">>,
    \* ActorSessionId
    <<"A","c","t","o","r","S","e","s","s","i","o","n","I","d">>,
    \* ActorUpn
    <<"A","c","t","o","r","U","p","n">>,
    \* ActorUserId
    <<"A","c","t","o","r","U","s","e","r","I","d">>,
    \* ActorUserIdType
    <<"A","c","t","o","r","U","s","e","r","I","d","T","y","p","e">>,
    \* ActorUserScope
    <<"A","c","t","o","r","U","s","e","r","S","c","o","p","e">>,
    \* ActorUserScopeId
    <<"A","c","t","o","r","U","s","e","r","S","c","o","p","e","I","d">>,
    \* ActorUserType
    <<"A","c","t","o","r","U","s","e","r","T","y","p","e">>,
    \* ActorUsername
    <<"A","c","t","o","r","U","s","e","r","n","a","m","e">>,
    \* AlertName
    <<"A","l","e","r","t","N","a","m","e">>,
    \* AlertSeverity
    <<"A","l","e","r","t","S","e","v","e","r","i","t","y">>,
    \* Application
    <<"A","p","p","l","i","c","a","t","i","o","n">>,
    \* Bytes
    <<"B","y","t","e","s">>,
    \* CloudAppId
    <<"C","l","o","u","d","A","p","p","I","d">>,
    \* CloudAppName
    <<"C","l","o","u","d","A","p","p","N","a","m","e">>,
    \* CloudAppOperation
    <<"C","l","o","u","d","A","p","p","O","p","e","r","a","t","i","o","n">>,
    \* CloudAppRiskLevel
    <<"C","l","o","u","d","A","p","p","R","i","s","k","L","e","v","e","l">>,
    \* Computer
    <<"C","o","m","p","u","t","e","r">>,
    \* DnsFlagsAuthenticated
    <<"D","n","s","F","l","a","g","s","A","u","t","h","e","n","t","i","c","a","t","e","d">>,
    \* DnsFlagsAuthoritative
    <<"D","n","s","F","l","a","g","s","A","u","t","h","o","r","i","t","a","t","i","v","e">>,
    \* DnsFlagsCheckingDisabled
    <<"D","n","s","F","l","a","g","s","C","h","e","c","k","i","n","g","D","i","s","a","b","l","e","d">>,
    \* DnsFlagsRecursionAvailable
    <<"D","n","s","F","l","a","g","s","R","e","c","u","r","s","i","o","n","A","v","a","i","l","a","b","l","e">>,
    \* DnsFlagsRecursionDesired
    <<"D","n","s","F","l","a","g","s","R","e","c","u","r","s","i","o","n","D","e","s","i","r","e","d">>,
    \* DnsFlagsTruncated
    <<"D","n","s","F","l","a","g","s","T","r","u","n","c","a","t","e","d">>,
    \* DnsQuery
    <<"D","n","s","Q","u","e","r","y">>,
    \* DnsQueryClass
    <<"D","n","s","Q","u","e","r","y","C","l","a","s","s">>,
    \* DnsQueryClassName
    <<"D","n","s","Q","u","e","r","y","C","l","a","s","s","N","a","m","e">>,
    \* DnsQueryType
    <<"D","n","s","Q","u","e","r","y","T","y","p","e">>,
    \* DnsQueryTypeName
    <<"D","n","s","Q","u","e","r","y","T","y","p","e","N","a","m","e">>,
    \* DnsResponseCode
    <<"D","n","s","R","e","s","p","o","n","s","e","C","o","d","e">>,
    \* DnsResponseCodeName
    <<"D","n","s","R","e","s","p","o","n","s","e","C","o","d","e","N","a","m","e">>,
    \* DnsResponseName
    <<"D","n","s","R","e","s","p","o","n","s","e","N","a","m","e">>,
    \* DstAction
    <<"D","s","t","A","c","t","i","o","n">>,
    \* DstBytes
    <<"D","s","t","B","y","t","e","s">>,
    \* DstDescription
    <<"D","s","t","D","e","s","c","r","i","p","t","i","o","n">>,
    \* DstDomain
    <<"D","s","t","D","o","m","a","i","n">>,
    \* DstDomainType
    <<"D","s","t","D","o","m","a","i","n","T","y","p","e">>,
    \* DstEmailAddress
    <<"D","s","t","E","m","a","i","l","A","d","d","r","e","s","s">>,
    \* DstFQDN
    <<"D","s","t","F","Q","D","N">>,
    \* DstGeoCity
    <<"D","s","t","G","e","o","C","i","t","y">>,
    \* DstGeoCountry
    <<"D","s","t","G","e","o","C","o","u","n","t","r","y">>,
    \* DstGeoLatitude
    <<"D","s","t","G","e","o","L","a","t","i","t","u","d","e">>,
    \* DstGeoLongitude
    <<"D","s","t","G","e","o","L","o","n","g","i","t","u","d","e">>,
    \* DstGeoRegion
    <<"D","s","t","G","e","o","R","e","g","i","o","n">>,
    \* DstHostname
    <<"D","s","t","H","o","s","t","n","a","m","e">>,
    \* DstId
    <<"D","s","t","I","d">>,
    \* DstIdType
    <<"D","s","t","I","d","T","y","p","e">>,
    \* DstInterface
    <<"D","s","t","I","n","t","e","r","f","a","c","e">>,
    \* DstIpAddr
    <<"D","s","t","I","p","A","d","d","r">>,
    \* DstMacAddr
    <<"D","s","t","M","a","c","A","d","d","r">>,
    \* DstOriginalAction
    <<"D","s","t","O","r","i","g","i","n","a","l","A","c","t","i","o","n">>,
    \* DstOriginalUserType
    <<"D","s","t","O","r","i","g","i","n","a","l","U","s","e","r","T","y","p","e">>,
    \* DstOs
    <<"D","s","t","O","s">>,
    \* DstOsVersion
    <<"D","s","t","O","s","V","e","r","s","i","o","n">>,
    \* DstPackets
    <<"D","s","t","P","a","c","k","e","t","s">>,
    \* DstPortNumber
    <<"D","s","t","P","o","r","t","N","u","m","b","e","r">>,
    \* DstScope
    <<"D","s","t","S","c","o","p","e">>,
    \* DstScopeId
    <<"D","s","t","S","c","o","p","e","I","d">>,
    \* DstSessionId
    <<"D","s","t","S","e","s","s","i","o","n","I","d">>,
    \* DstType
    <<"D","s","t","T","y","p","e">>,
    \* DstUpn
    <<"D","s","t","U","p","n">>,
    \* DstUserId
    <<"D","s","t","U","s","e","r","I","d">>,
    \* DstUserIdType
    <<"D","s","t","U","s","e","r","I","d","T","y","p","e">>,
    \* DstUserScope
    <<"D","s","t","U","s","e","r","S","c","o","p","e">>,
    \* DstUserScopeId
    <<"D","s","t","U","s","e","r","S","c","o","p","e","I","d">>,
    \* DstUserType
    <<"D","s","t","U","s","e","r","T","y","p","e">>,
    \* DstUsername
    <<"D","s","t","U","s","e","r","n","a","m","e">>,
    \* DstVlanId
    <<"D","s","t","V","l","a","n","I","d">>,
    \* DstZone
    <<"D","s","t","Z","o","n","e">>,
    \* DvcAction
    <<"D","v","c","A","c","t","i","o","n">>,
    \* DvcDescription
    <<"D","v","c","D","e","s","c","r","i","p","t","i","o","n">>,
    \* DvcDomain
    <<"D","v","c","D","o","m","a","i","n">>,
    \* DvcDomainType
    <<"D","v","c","D","o","m","a","i","n","T","y","p","e">>,
    \* DvcFQDN
    <<"D","v","c","F","Q","D","N">>,
    \* DvcHostname
    <<"D","v","c","H","o","s","t","n","a","m","e">>,
    \* DvcId
    <<"D","v","c","I","d">>,
    \* DvcIdType
    <<"D","v","c","I","d","T","y","p","e">>,
    \* DvcInterface
    <<"D","v","c","I","n","t","e","r","f","a","c","e">>,
    \* DvcIpAddr
    <<"D","v","c","I","p","A","d","d","r">>,
    \* DvcMacAddr
    <<"D","v","c","M","a","c","A","d","d","r">>,
    \* DvcOriginalAction
    <<"D","v","c","O","r","i","g","i","n","a","l","A","c","t","i","o","n">>,
    \* DvcOs
    <<"D","v","c","O","s">>,
    \* DvcOsVersion
    <<"D","v","c","O","s","V","e","r","s","i","o","n">>,
    \* DvcScope
    <<"D","v","c","S","c","o","p","e">>,
    \* DvcScopeId
    <<"D","v","c","S","c","o","p","e","I","d">>,
    \* DvcType
    <<"D","v","c","T","y","p","e">>,
    \* DvcZone
    <<"D","v","c","Z","o","n","e">>,
    \* EmailDirection
    <<"E","m","a","i","l","D","i","r","e","c","t","i","o","n">>,
    \* EmailRecipient
    <<"E","m","a","i","l","R","e","c","i","p","i","e","n","t">>,
    \* EmailRecipientName
    <<"E","m","a","i","l","R","e","c","i","p","i","e","n","t","N","a","m","e">>,
    \* EmailSenderAddress
    <<"E","m","a","i","l","S","e","n","d","e","r","A","d","d","r","e","s","s">>,
    \* EmailSenderName
    <<"E","m","a","i","l","S","e","n","d","e","r","N","a","m","e">>,
    \* EmailSubject
    <<"E","m","a","i","l","S","u","b","j","e","c","t">>,
    \* EventMessage
    <<"E","v","e","n","t","M","e","s","s","a","g","e">>,
    \* EventOriginalResultDetails
    <<"E","v","e","n","t","O","r","i","g","i","n","a","l","R","e","s","u","l","t","D","e","t","a","i","l","s">>,
    \* EventOriginalType
    <<"E","v","e","n","t","O","r","i","g","i","n","a","l","T","y","p","e">>,
    \* EventResult
    <<"E","v","e","n","t","R","e","s","u","l","t">>,
    \* EventResultDetails
    <<"E","v","e","n","t","R","e","s","u","l","t","D","e","t","a","i","l","s">>,
    \* EventType
    <<"E","v","e","n","t","T","y","p","e">>,
    \* Hostname
    <<"H","o","s","t","n","a","m","e">>,
    \* HttpContentFormat
    <<"H","t","t","p","C","o","n","t","e","n","t","F","o","r","m","a","t">>,
    \* HttpContentType
    <<"H","t","t","p","C","o","n","t","e","n","t","T","y","p","e">>,
    \* HttpReferrer
    <<"H","t","t","p","R","e","f","e","r","r","e","r">>,
    \* HttpRequestMethod
    <<"H","t","t","p","R","e","q","u","e","s","t","M","e","t","h","o","d">>,
    \* HttpStatusCode
    <<"H","t","t","p","S","t","a","t","u","s","C","o","d","e">>,
    \* HttpUserAgent
    <<"H","t","t","p","U","s","e","r","A","g","e","n","t">>,
    \* HttpVersion
    <<"H","t","t","p","V","e","r","s","i","o","n">>,
    \* ImpersonationLevel
    <<"I","m","p","e","r","s","o","n","a","t","i","o","n","L","e","v","e","l">>,
    \* InnerVlanId
    <<"I","n","n","e","r","V","l","a","n","I","d">>,
    \* IpAddr
    <<"I","p","A","d","d","r">>,
    \* LogonType
    <<"L","o","g","o","n","T","y","p","e">>,
    \* NetworkApplicationProtocol
    <<"N","e","t","w","o","r","k","A","p","p","l","i","c","a","t","i","o","n","P","r","o","t","o","c","o","l">>,
    \* NetworkConnectionHistory
    <<"N","e","t","w","o","r","k","C","o","n","n","e","c","t","i","o","n","H","i","s","t","o","r","y">>,
    \* NetworkDirection
    <<"N","e","t","w","o","r","k","D","i","r","e","c","t","i","o","n">>,
    \* NetworkDuration
    <<"N","e","t","w","o","r","k","D","u","r","a","t","i","o","n">>,
    \* NetworkIcmpCode
    <<"N","e","t","w","o","r","k","I","c","m","p","C","o","d","e">>,
    \* NetworkIcmpType
    <<"N","e","t","w","o","r","k","I","c","m","p","T","y","p","e">>,
    \* NetworkProtocol
    <<"N","e","t","w","o","r","k","P","r","o","t","o","c","o","l">>,
    \* NetworkProtocolVersion
    <<"N","e","t","w","o","r","k","P","r","o","t","o","c","o","l","V","e","r","s","i","o","n">>,
    \* NetworkRuleName
    <<"N","e","t","w","o","r","k","R","u","l","e","N","a","m","e">>,
    \* NetworkRuleNumber
    <<"N","e","t","w","o","r","k","R","u","l","e","N","u","m","b","e","r">>,
    \* OuterVlanId
    <<"O","u","t","e","r","V","l","a","n","I","d">>,
    \* Packets
    <<"P","a","c","k","e","t","s">>,
    \* ParentProcessCommandLine
    <<"P","a","r","e","n","t","P","r","o","c","e","s","s","C","o","m","m","a","n","d","L","i","n","e">>,
    \* ParentProcessCreationTime
    <<"P","a","r","e","n","t","P","r","o","c","e","s","s","C","r","e","a","t","i","o","n","T","i","m","e">>,
    \* ParentProcessCurrentDirectory
    <<"P","a","r","e","n","t","P","r","o","c","e","s","s","C","u","r","r","e","n","t","D","i","r","e","c","t","o","r","y">>,
    \* ParentProcessEndTime
    <<"P","a","r","e","n","t","P","r","o","c","e","s","s","E","n","d","T","i","m","e">>,
    \* ParentProcessFileCompany
    <<"P","a","r","e","n","t","P","r","o","c","e","s","s","F","i","l","e","C","o","m","p","a","n","y">>,
    \* ParentProcessFileDescription
    <<"P","a","r","e","n","t","P","r","o","c","e","s","s","F","i","l","e","D","e","s","c","r","i","p","t","i","o","n">>,
    \* ParentProcessFileInternalName
    <<"P","a","r","e","n","t","P","r","o","c","e","s","s","F","i","l","e","I","n","t","e","r","n","a","l","N","a","m","e">>,
    \* ParentProcessFileMD5
    <<"P","a","r","e","n","t","P","r","o","c","e","s","s","F","i","l","e","M","D","5">>,
    \* ParentProcessFileOriginalName
    <<"P","a","r","e","n","t","P","r","o","c","e","s","s","F","i","l","e","O","r","i","g","i","n","a","l","N","a","m","e">>,
    \* ParentProcessFileProduct
    <<"P","a","r","e","n","t","P","r","o","c","e","s","s","F","i","l","e","P","r","o","d","u","c","t">>,
    \* ParentProcessFileSHA1
    <<"P","a","r","e","n","t","P","r","o","c","e","s","s","F","i","l","e","S","H","A","1">>,
    \* ParentProcessFileSHA256
    <<"P","a","r","e","n","t","P","r","o","c","e","s","s","F","i","l","e","S","H","A","2","5","6">>,
    \* ParentProcessFileSHA512
    <<"P","a","r","e","n","t","P","r","o","c","e","s","s","F","i","l","e","S","H","A","5","1","2">>,
    \* ParentProcessFileVersion
    <<"P","a","r","e","n","t","P","r","o","c","e","s","s","F","i","l","e","V","e","r","s","i","o","n">>,
    \* ParentProcessGuid
    <<"P","a","r","e","n","t","P","r","o","c","e","s","s","G","u","i","d">>,
    \* ParentProcessId
    <<"P","a","r","e","n","t","P","r","o","c","e","s","s","I","d">>,
    \* ParentProcessIntegrityLevel
    <<"P","a","r","e","n","t","P","r","o","c","e","s","s","I","n","t","e","g","r","i","t","y","L","e","v","e","l">>,
    \* ParentProcessName
    <<"P","a","r","e","n","t","P","r","o","c","e","s","s","N","a","m","e">>,
    \* ParentProcessStartTime
    <<"P","a","r","e","n","t","P","r","o","c","e","s","s","S","t","a","r","t","T","i","m","e">>,
    \* ParentProcessTokenElevation
    <<"P","a","r","e","n","t","P","r","o","c","e","s","s","T","o","k","e","n","E","l","e","v","a","t","i","o","n">>,
    \* PortNumber
    <<"P","o","r","t","N","u","m","b","e","r">>,
    \* PrivilegeList
    <<"P","r","i","v","i","l","e","g","e","L","i","s","t">>,
    \* RegistryKey
    <<"R","e","g","i","s","t","r","y","K","e","y">>,
    \* RegistryPreviousKey
    <<"R","e","g","i","s","t","r","y","P","r","e","v","i","o","u","s","K","e","y">>,
    \* RegistryPreviousValue
    <<"R","e","g","i","s","t","r","y","P","r","e","v","i","o","u","s","V","a","l","u","e">>,
    \* RegistryPreviousValueData
    <<"R","e","g","i","s","t","r","y","P","r","e","v","i","o","u","s","V","a","l","u","e","D","a","t","a">>,
    \* RegistryPreviousValueType
    <<"R","e","g","i","s","t","r","y","P","r","e","v","i","o","u","s","V","a","l","u","e","T","y","p","e">>,
    \* RegistryValue
    <<"R","e","g","i","s","t","r","y","V","a","l","u","e">>,
    \* RegistryValueData
    <<"R","e","g","i","s","t","r","y","V","a","l","u","e","D","a","t","a">>,
    \* RegistryValueType
    <<"R","e","g","i","s","t","r","y","V","a","l","u","e","T","y","p","e">>,
    \* RuleName
    <<"R","u","l","e","N","a","m","e">>,
    \* RuleNumber
    <<"R","u","l","e","N","u","m","b","e","r">>,
    \* SrcAction
    <<"S","r","c","A","c","t","i","o","n">>,
    \* SrcBytes
    <<"S","r","c","B","y","t","e","s">>,
    \* SrcDescription
    <<"S","r","c","D","e","s","c","r","i","p","t","i","o","n">>,
    \* SrcDomain
    <<"S","r","c","D","o","m","a","i","n">>,
    \* SrcDomainType
    <<"S","r","c","D","o","m","a","i","n","T","y","p","e">>,
    \* SrcEmailAddress
    <<"S","r","c","E","m","a","i","l","A","d","d","r","e","s","s">>,
    \* SrcFQDN
    <<"S","r","c","F","Q","D","N">>,
    \* SrcFileContentType
    <<"S","r","c","F","i","l","e","C","o","n","t","e","n","t","T","y","p","e">>,
    \* SrcFileCreationTime
    <<"S","r","c","F","i","l","e","C","r","e","a","t","i","o","n","T","i","m","e">>,
    \* SrcFileDirectory
    <<"S","r","c","F","i","l","e","D","i","r","e","c","t","o","r","y">>,
    \* SrcFileExtension
    <<"S","r","c","F","i","l","e","E","x","t","e","n","s","i","o","n">>,
    \* SrcFileHashType
    <<"S","r","c","F","i","l","e","H","a","s","h","T","y","p","e">>,
    \* SrcFileMD5
    <<"S","r","c","F","i","l","e","M","D","5">>,
    \* SrcFileMimeType
    <<"S","r","c","F","i","l","e","M","i","m","e","T","y","p","e">>,
    \* SrcFileName
    <<"S","r","c","F","i","l","e","N","a","m","e">>,
    \* SrcFilePath
    <<"S","r","c","F","i","l","e","P","a","t","h">>,
    \* SrcFilePathType
    <<"S","r","c","F","i","l","e","P","a","t","h","T","y","p","e">>,
    \* SrcFileSHA1
    <<"S","r","c","F","i","l","e","S","H","A","1">>,
    \* SrcFileSHA256
    <<"S","r","c","F","i","l","e","S","H","A","2","5","6">>,
    \* SrcFileSHA512
    <<"S","r","c","F","i","l","e","S","H","A","5","1","2">>,
    \* SrcFileSize
    <<"S","r","c","F","i","l","e","S","i","z","e">>,
    \* SrcGeoCity
    <<"S","r","c","G","e","o","C","i","t","y">>,
    \* SrcGeoCountry
    <<"S","r","c","G","e","o","C","o","u","n","t","r","y">>,
    \* SrcGeoLatitude
    <<"S","r","c","G","e","o","L","a","t","i","t","u","d","e">>,
    \* SrcGeoLongitude
    <<"S","r","c","G","e","o","L","o","n","g","i","t","u","d","e">>,
    \* SrcGeoRegion
    <<"S","r","c","G","e","o","R","e","g","i","o","n">>,
    \* SrcHostname
    <<"S","r","c","H","o","s","t","n","a","m","e">>,
    \* SrcId
    <<"S","r","c","I","d">>,
    \* SrcIdType
    <<"S","r","c","I","d","T","y","p","e">>,
    \* SrcInterface
    <<"S","r","c","I","n","t","e","r","f","a","c","e">>,
    \* SrcIpAddr
    <<"S","r","c","I","p","A","d","d","r">>,
    \* SrcMacAddr
    <<"S","r","c","M","a","c","A","d","d","r">>,
    \* SrcOriginalAction
    <<"S","r","c","O","r","i","g","i","n","a","l","A","c","t","i","o","n">>,
    \* SrcOriginalUserType
    <<"S","r","c","O","r","i","g","i","n","a","l","U","s","e","r","T","y","p","e">>,
    \* SrcOs
    <<"S","r","c","O","s">>,
    \* SrcOsVersion
    <<"S","r","c","O","s","V","e","r","s","i","o","n">>,
    \* SrcPackets
    <<"S","r","c","P","a","c","k","e","t","s">>,
    \* SrcPortNumber
    <<"S","r","c","P","o","r","t","N","u","m","b","e","r">>,
    \* SrcScope
    <<"S","r","c","S","c","o","p","e">>,
    \* SrcScopeId
    <<"S","r","c","S","c","o","p","e","I","d">>,
    \* SrcSessionId
    <<"S","r","c","S","e","s","s","i","o","n","I","d">>,
    \* SrcType
    <<"S","r","c","T","y","p","e">>,
    \* SrcUpn
    <<"S","r","c","U","p","n">>,
    \* SrcUserId
    <<"S","r","c","U","s","e","r","I","d">>,
    \* SrcUserIdType
    <<"S","r","c","U","s","e","r","I","d","T","y","p","e">>,
    \* SrcUserScope
    <<"S","r","c","U","s","e","r","S","c","o","p","e">>,
    \* SrcUserScopeId
    <<"S","r","c","U","s","e","r","S","c","o","p","e","I","d">>,
    \* SrcUserType
    <<"S","r","c","U","s","e","r","T","y","p","e">>,
    \* SrcUsername
    <<"S","r","c","U","s","e","r","n","a","m","e">>,
    \* SrcVlanId
    <<"S","r","c","V","l","a","n","I","d">>,
    \* SrcZone
    <<"S","r","c","Z","o","n","e">>,
    \* SubjectDomainName
    <<"S","u","b","j","e","c","t","D","o","m","a","i","n","N","a","m","e">>,
    \* SubjectUserName
    <<"S","u","b","j","e","c","t","U","s","e","r","N","a","m","e">>,
    \* SubjectUserSid
    <<"S","u","b","j","e","c","t","U","s","e","r","S","i","d">>,
    \* TargetAppId
    <<"T","a","r","g","e","t","A","p","p","I","d">>,
    \* TargetAppName
    <<"T","a","r","g","e","t","A","p","p","N","a","m","e">>,
    \* TargetAppType
    <<"T","a","r","g","e","t","A","p","p","T","y","p","e">>,
    \* TargetDomain
    <<"T","a","r","g","e","t","D","o","m","a","i","n">>,
    \* TargetDomainName
    <<"T","a","r","g","e","t","D","o","m","a","i","n","N","a","m","e">>,
    \* TargetDomainType
    <<"T","a","r","g","e","t","D","o","m","a","i","n","T","y","p","e">>,
    \* TargetEmailAddress
    <<"T","a","r","g","e","t","E","m","a","i","l","A","d","d","r","e","s","s">>,
    \* TargetFileContentType
    <<"T","a","r","g","e","t","F","i","l","e","C","o","n","t","e","n","t","T","y","p","e">>,
    \* TargetFileCreationTime
    <<"T","a","r","g","e","t","F","i","l","e","C","r","e","a","t","i","o","n","T","i","m","e">>,
    \* TargetFileDirectory
    <<"T","a","r","g","e","t","F","i","l","e","D","i","r","e","c","t","o","r","y">>,
    \* TargetFileExtension
    <<"T","a","r","g","e","t","F","i","l","e","E","x","t","e","n","s","i","o","n">>,
    \* TargetFileHashType
    <<"T","a","r","g","e","t","F","i","l","e","H","a","s","h","T","y","p","e">>,
    \* TargetFileMD5
    <<"T","a","r","g","e","t","F","i","l","e","M","D","5">>,
    \* TargetFileMimeType
    <<"T","a","r","g","e","t","F","i","l","e","M","i","m","e","T","y","p","e">>,
    \* TargetFileName
    <<"T","a","r","g","e","t","F","i","l","e","N","a","m","e">>,
    \* TargetFilePath
    <<"T","a","r","g","e","t","F","i","l","e","P","a","t","h">>,
    \* TargetFilePathType
    <<"T","a","r","g","e","t","F","i","l","e","P","a","t","h","T","y","p","e">>,
    \* TargetFileSHA1
    <<"T","a","r","g","e","t","F","i","l","e","S","H","A","1">>,
    \* TargetFileSHA256
    <<"T","a","r","g","e","t","F","i","l","e","S","H","A","2","5","6">>,
    \* TargetFileSHA512
    <<"T","a","r","g","e","t","F","i","l","e","S","H","A","5","1","2">>,
    \* TargetFileSize
    <<"T","a","r","g","e","t","F","i","l","e","S","i","z","e">>,
    \* TargetOriginalUserType
    <<"T","a","r","g","e","t","O","r","i","g","i","n","a","l","U","s","e","r","T","y","p","e">>,
    \* TargetProcessCommandLine
    <<"T","a","r","g","e","t","P","r","o","c","e","s","s","C","o","m","m","a","n","d","L","i","n","e">>,
    \* TargetProcessCreationTime
    <<"T","a","r","g","e","t","P","r","o","c","e","s","s","C","r","e","a","t","i","o","n","T","i","m","e">>,
    \* TargetProcessCurrentDirectory
    <<"T","a","r","g","e","t","P","r","o","c","e","s","s","C","u","r","r","e","n","t","D","i","r","e","c","t","o","r","y">>,
    \* TargetProcessEndTime
    <<"T","a","r","g","e","t","P","r","o","c","e","s","s","E","n","d","T","i","m","e">>,
    \* TargetProcessFileCompany
    <<"T","a","r","g","e","t","P","r","o","c","e","s","s","F","i","l","e","C","o","m","p","a","n","y">>,
    \* TargetProcessFileDescription
    <<"T","a","r","g","e","t","P","r","o","c","e","s","s","F","i","l","e","D","e","s","c","r","i","p","t","i","o","n">>,
    \* TargetProcessFileInternalName
    <<"T","a","r","g","e","t","P","r","o","c","e","s","s","F","i","l","e","I","n","t","e","r","n","a","l","N","a","m","e">>,
    \* TargetProcessFileMD5
    <<"T","a","r","g","e","t","P","r","o","c","e","s","s","F","i","l","e","M","D","5">>,
    \* TargetProcessFileOriginalName
    <<"T","a","r","g","e","t","P","r","o","c","e","s","s","F","i","l","e","O","r","i","g","i","n","a","l","N","a","m","e">>,
    \* TargetProcessFileProduct
    <<"T","a","r","g","e","t","P","r","o","c","e","s","s","F","i","l","e","P","r","o","d","u","c","t">>,
    \* TargetProcessFileSHA1
    <<"T","a","r","g","e","t","P","r","o","c","e","s","s","F","i","l","e","S","H","A","1">>,
    \* TargetProcessFileSHA256
    <<"T","a","r","g","e","t","P","r","o","c","e","s","s","F","i","l","e","S","H","A","2","5","6">>,
    \* TargetProcessFileSHA512
    <<"T","a","r","g","e","t","P","r","o","c","e","s","s","F","i","l","e","S","H","A","5","1","2">>,
    \* TargetProcessFileVersion
    <<"T","a","r","g","e","t","P","r","o","c","e","s","s","F","i","l","e","V","e","r","s","i","o","n">>,
    \* TargetProcessGuid
    <<"T","a","r","g","e","t","P","r","o","c","e","s","s","G","u","i","d">>,
    \* TargetProcessId
    <<"T","a","r","g","e","t","P","r","o","c","e","s","s","I","d">>,
    \* TargetProcessIntegrityLevel
    <<"T","a","r","g","e","t","P","r","o","c","e","s","s","I","n","t","e","g","r","i","t","y","L","e","v","e","l">>,
    \* TargetProcessName
    <<"T","a","r","g","e","t","P","r","o","c","e","s","s","N","a","m","e">>,
    \* TargetProcessStartTime
    <<"T","a","r","g","e","t","P","r","o","c","e","s","s","S","t","a","r","t","T","i","m","e">>,
    \* TargetProcessTokenElevation
    <<"T","a","r","g","e","t","P","r","o","c","e","s","s","T","o","k","e","n","E","l","e","v","a","t","i","o","n">>,
    \* TargetSessionId
    <<"T","a","r","g","e","t","S","e","s","s","i","o","n","I","d">>,
    \* TargetUpn
    <<"T","a","r","g","e","t","U","p","n">>,
    \* TargetUserId
    <<"T","a","r","g","e","t","U","s","e","r","I","d">>,
    \* TargetUserIdType
    <<"T","a","r","g","e","t","U","s","e","r","I","d","T","y","p","e">>,
    \* TargetUserName
    <<"T","a","r","g","e","t","U","s","e","r","N","a","m","e">>,
    \* TargetUserScope
    <<"T","a","r","g","e","t","U","s","e","r","S","c","o","p","e">>,
    \* TargetUserScopeId
    <<"T","a","r","g","e","t","U","s","e","r","S","c","o","p","e","I","d">>,
    \* TargetUserSid
    <<"T","a","r","g","e","t","U","s","e","r","S","i","d">>,
    \* TargetUserType
    <<"T","a","r","g","e","t","U","s","e","r","T","y","p","e">>,
    \* TargetUsername
    <<"T","a","r","g","e","t","U","s","e","r","n","a","m","e">>,
    \* ThreatCategory
    <<"T","h","r","e","a","t","C","a","t","e","g","o","r","y">>,
    \* ThreatConfidence
    <<"T","h","r","e","a","t","C","o","n","f","i","d","e","n","c","e">>,
    \* ThreatField
    <<"T","h","r","e","a","t","F","i","e","l","d">>,
    \* ThreatFirstReportedTime
    <<"T","h","r","e","a","t","F","i","r","s","t","R","e","p","o","r","t","e","d","T","i","m","e">>,
    \* ThreatId
    <<"T","h","r","e","a","t","I","d">>,
    \* ThreatIpAddr
    <<"T","h","r","e","a","t","I","p","A","d","d","r">>,
    \* ThreatIsActive
    <<"T","h","r","e","a","t","I","s","A","c","t","i","v","e">>,
    \* ThreatLastReportedTime
    <<"T","h","r","e","a","t","L","a","s","t","R","e","p","o","r","t","e","d","T","i","m","e">>,
    \* ThreatName
    <<"T","h","r","e","a","t","N","a","m","e">>,
    \* ThreatOriginalConfidence
    <<"T","h","r","e","a","t","O","r","i","g","i","n","a","l","C","o","n","f","i","d","e","n","c","e">>,
    \* ThreatOriginalRiskLevel
    <<"T","h","r","e","a","t","O","r","i","g","i","n","a","l","R","i","s","k","L","e","v","e","l">>,
    \* ThreatRiskLevel
    <<"T","h","r","e","a","t","R","i","s","k","L","e","v","e","l">>,
    \* Url
    <<"U","r","l">>,
    \* UrlCategory
    <<"U","r","l","C","a","t","e","g","o","r","y">>,
    \* UrlDomain
    <<"U","r","l","D","o","m","a","i","n">>,
    \* UrlHostname
    <<"U","r","l","H","o","s","t","n","a","m","e">>,
    \* UrlOriginal
    <<"U","r","l","O","r","i","g","i","n","a","l">>,
    \* User
    <<"U","s","e","r">>,
    \* VlanId
    <<"V","l","a","n","I","d">>,
    \* WorkstationName
    <<"W","o","r","k","s","t","a","t","i","o","n","N","a","m","e">> }

\* _is_valid_asim_field
_is_valid_asim_field(field_name) ==
    /\ field_name.t = "str"
    /\ \E valid_field \in VALID_ASIM_FIELD_NAMES :
          StrLower(valid_field) = StrLower(field_name.s)

\* the loop body over field_mappings; _create_asim_field_warning raises
\* TypeError when entity_type is unhashable (`entity_type in
\* ENTITY_TO_ASIM_PATTERNS`)
AsimFieldMapping(entity_type, field_mapping, index, field_idx) ==
    IF field_mapping.t # "dict" THEN Returned(<<>>)
    ELSE IF ~Truthy(DictGet(field_mapping.d, "columnName")) THEN Returned(<<>>)
    ELSE IF _is_valid_asim_field(DictGet(field_mapping.d, "columnName")) THEN Returned(<<>>)
    ELSE IF entity_type.t \in {"list", "dict"} THEN Raised
    ELSE Returned(<<create_warning(
            Msg("does not follow ASIM normalized field naming conventions"),
            FieldAt("entityMappings[i].fieldMappings[j].columnName",
                    <<index, field_idx>>))>>)

\* _validate_entity_asim_fields for an entity that is a dictionary;
\* enumerate() on a truthy fieldMappings that is a number raises TypeError
_validate_entity_asim_fields(entity, index) ==
    LET field_mappings == IF "fieldMappings" \in DOMAIN entity.d
                          THEN entity.d["fieldMappings"] ELSE ListV(<<>>)
    IN  IF ~Truthy(DictGet(entity.d, "entityType")) THEN Returned(<<>>)
        ELSE IF ~Truthy(field_mappings) THEN Returned(<<>>)
        ELSE IF ~Iterable(field_mappings) THEN Raised
        ELSE Collect([j \in 1..Len(IterItems(field_mappings)) |->
                        AsimFieldMapping(DictGet(entity.d, "entityType"),
                                         IterItems(field_mappings)[j], index, j - 1)])

\* ASIMFieldValidator.validate
ASIMValidate(rule_data) ==
    LET entity_mappings == IF "entityMappings" \in DOMAIN rule_data
                           THEN rule_data["entityMappings"] ELSE ListV(<<>>)
    IN  IF ~Truthy(entity_mappings) THEN Returned(<<>>)
        ELSE IF entity_mappings.t # "list" THEN Returned(<<>>)
        ELSE Collect([i \in 1..Len(entity_mappings.items) |->
                        IF entity_mappings.items[i].t # "dict" THEN Returned(<<>>)
                        ELSE _validate_entity_asim_fields(entity_mappings.items[i], i - 1)])

(***************************************************************************)
(* The inputs of the model: identifier values, records, file contents and  *)
(* parser behaviours.                                                      *)
(***************************************************************************)
Dash == <<"-">>

\* aaaaaaaa-1111-2222-3333-bbbbbbbbbbbb
GuidA == Rep("a", 8) \o Dash \o Rep("1", 4) \o Dash \o Rep("2", 4) \o Dash
            \o Rep("3", 4) \o Dash \o Rep("b", 12)
\* the same identifier in upper case
GuidAUpper == Rep("A", 8) \o Dash \o Rep("1", 4) \o Dash \o Rep("2", 4) \o Dash
            \o Rep("3", 4) \o Dash \o Rep("B", 12)
\* the same 32 digits with no hyphens
GuidANoDash == Rep("a", 8) \o Rep("1", 4) \o Rep("2", 4) \o Rep("3", 4) \o Rep("b", 12)
\* cccccccc-4444-5555-6666-dddddddddddd
GuidC == Rep("c", 8) \o Dash \o Rep("4", 4) \o Dash \o Rep("5", 4) \o Dash
            \o Rep("6", 4) \o Dash \o Rep("d", 12)

FieldMapping(identifier, column) ==
    DictV(("identifier" :> StrV(identifier)) @@ ("columnName" :> StrV(column)))
EntityMapping(type, mappings) ==
    DictV(("entityType" :> StrV(type)) @@ ("fieldMappings" :> ListV(mappings)))

AccountT == <<"A","c","c","o","u","n","t">>
UnknownT == <<"W","i","d","g","e","t">>
NameId == <<"N","a","m","e">>
nameId == <<"n","a","m","e">>
FooId == <<"F","o","o">>
ColC == <<"C">>
ColD == <<"D">>

\* a rule with every required field, well typed
GoodRule ==
    ("id" :> StrV(GuidA)) @@ ("name" :> StrV(<<"r">>)) @@ ("kind" :> StrV(<<"S">>))
    @@ ("description" :> StrV(<<"d">>)) @@ ("severity" :> StrV(<<"H">>))
    @@ ("enabled" :> BoolV(TRUE)) @@ ("query" :> StrV(<<"q">>))
    @@ ("queryFrequency" :> StrV(<<"5","m">>)) @@ ("queryPeriod" :> StrV(<<"1","h">>))
    @@ ("triggerOperator" :> StrV(<<"g","t">>)) @@ ("triggerThreshold" :> IntV(0))
    @@ ("entityMappings" :>
            ListV(<<EntityMapping(AccountT, <<FieldMapping(NameId, ColC)>>)>>))

Without(rule, key) == [k \in DOMAIN rule \ {key} |-> rule[k]]
With(rule, key, value) == (key :> value) @@ rule

\* the same identifier as GoodRule up to case, and an identifier that is no
\* strong identifier of Account
WarnRule ==
    With(With(GoodRule, "id", StrV(GuidAUpper)), "entityMappings",
         ListV(<<EntityMapping(AccountT, <<FieldMapping(FooId, ColC)>>)>>))

\* no identifier, an entity type the table does not know, a frequency above
\* the period
BadRule ==
    With(With(Without(GoodRule, "id"), "entityMappings",
              ListV(<<EntityMapping(UnknownT, <<FieldMapping(NameId, ColD)>>)>>)),
         "queryFrequency", StrV(<<"2","h">>))

\* a malformed identifier, a mis-cased strong identifier, no query
CaseRule ==
    Without(With(With(GoodRule, "id", StrV(<<"x","y","z">>)), "entityMappings",
                 ListV(<<EntityMapping(AccountT, <<FieldMapping(nameId, ColD)>>)>>)),
            "query")

Rules == {GoodRule, WarnRule, BadRule, CaseRule}

Contents == {Mapping(r) : r \in Rules} \cup {Unloadable(k) : k \in LoadFailures}

\* the contents met in a directory run: every rule, a file deleted after the
\* scan and a file that does not parse
DirectoryContents ==
    {Mapping(r) : r \in Rules} \cup {Unloadable("missing"), Unloadable("malformed")}

\* the stores in which the files of a run hold a content from `contents`;
\* the files outside the run do not exist
StoresOver(files, contents) ==
    {[f \in Files |-> IF f \in files THEN c[f] ELSE Unloadable("missing")] :
        c \in [files -> contents]}

KqlEnv(syntax, semantic, columns) ==
    [syntax |-> syntax, semantic |-> semantic, columns |-> columns]

\* the parser behaviours a run of the linter meets: a clean parse with the
\* output columns inferred, a syntax error, and a parser that fails after a
\* clean syntax pass
KqlEnvs ==
    {KqlEnv(ParserReturns(<<>>),
            ParserReturns(<<ParserDiag("warning", TRUE), ParserDiag("error", FALSE)>>),
            [raises |-> FALSE, names |-> {ColC}]),
     KqlEnv(ParserReturns(<<ParserDiag("error", TRUE)>>), ParserRaises,
            [raises |-> TRUE, names |-> {}]),
     KqlEnv(ParserReturns(<<>>), ParserRaises, [raises |-> TRUE, names |-> {}])}

\* the parser is not consulted by the other validators
NoEnv == [syntax |-> ParserReturns(<<>>), semantic |-> ParserReturns(<<>>),
          columns |-> [raises |-> FALSE, names |-> {}]]

(***************************************************************************)
(* The state.                                                              *)
(***************************************************************************)
VARIABLES
    dll_loaded,      \* KQLValidator._dll_loaded (class attribute)
    load_attempts,   \* how often _load_kusto_dll went past its guard
    linters,         \* how many SentinelLinter objects were constructed
    notices,         \* how many "KQL validation disabled" notices were printed
    validators,      \* SentinelLinter.validators: the display names, in order
    kql_validator,   \* SentinelLinter.kql_validator
    store,           \* the content of each record file
    pc,              \* where the run is
    mode,            \* "file" (validate_file alone) or "directory"
    yaml_files,      \* validate_directory: the enumerated files
    all_yaml_files,  \* validate_file: the sibling list, or None
    file_idx,        \* validate_directory: position in yaml_files
    file_path,       \* validate_file: the file
    rule_data,       \* validate_file: the loaded record
    v_idx,           \* validate_file: position in self.validators
    pending,         \* the diagnostics of the current validator not yet classified
    result,          \* validate_file: the outcome being built
    results,         \* the outcomes returned by the run
    calls            \* the validate calls made for the current file

vars == <<dll_loaded, load_attempts, linters, notices, validators, kql_validator,
          store, pc, mode, yaml_files, all_yaml_files, file_idx, file_path,
          rule_data, v_idx, pending, result, results, calls>>

linterVars == <<dll_loaded, load_attempts, linters, notices, validators, kql_validator>>
runVars == <<store, pc, mode, yaml_files, all_yaml_files, file_idx, file_path,
             rule_data, v_idx, pending, result, results, calls>>

NoKql == [present |-> FALSE, global_state |-> FALSE]

Init ==
    /\ dll_loaded = FALSE
    /\ load_attempts = 0
    /\ linters = 0
    /\ notices = 0
    /\ validators = <<>>
    /\ kql_validator = NoKql
    /\ store = [f \in Files |-> Unloadable("missing")]
    /\ pc = "idle"
    /\ mode = "none"
    /\ yaml_files = <<>>
    /\ all_yaml_files = NoFiles
    /\ file_idx = 0
    /\ file_path = 0
    /\ rule_data = EmptyDict
    /\ v_idx = 0
    /\ pending = <<>>
    /\ result = NewResult(0)
    /\ results = <<>>
    /\ calls = <<>>

(***************************************************************************)
(* SentinelLinter.__init__ and KQLValidator.__init__ (linter.py,           *)
(* validators/kql_validator.py).                                           *)
(***************************************************************************)
AlwaysEnabled ==
    <<"GUID Validator", "Schema Validator", "Entity Validator", "Timing Validator">>

\* faulty variant: a failed load does not raise
_load_kusto_dll_never_raises(loaded, available) ==
    IF loaded THEN [attempted |-> FALSE, raised |-> FALSE, loaded |-> TRUE]
    ELSE [attempted |-> TRUE, raised |-> FALSE, loaded |-> available]

\* _load_kusto_dll: returns at once when the class flag is set; otherwise one
\* attempt, which sets the flag only when it succeeds (available)
_load_kusto_dll(loaded, available) ==
    IF loaded THEN [attempted |-> FALSE, raised |-> FALSE, loaded |-> TRUE]
    ELSE IF available THEN [attempted |-> TRUE, raised |-> FALSE, loaded |-> TRUE]
    ELSE [attempted |-> TRUE, raised |-> TRUE, loaded |-> FALSE]

\* SentinelLinter(kql_schema, enable_kql_validation); available: whether the
\* native library can be loaded now; built: whether _build_global_state
\* succeeds
Construct(kql_schema, enable_kql_validation, available, built) ==
    /\ pc = "idle"
    /\ linters < MaxLinters
    /\ linters' = linters + 1
    /\ IF ~enable_kql_validation
       THEN /\ validators' = AlwaysEnabled
            /\ kql_validator' = NoKql
            /\ UNCHANGED <<dll_loaded, load_attempts, notices>>
       ELSE LET load == _load_kusto_dll(dll_loaded, available)
            IN  /\ dll_loaded' = load.loaded
                /\ load_attempts' = load_attempts + (IF load.attempted THEN 1 ELSE 0)
                /\ IF load.raised
                   THEN /\ validators' = AlwaysEnabled
                        /\ kql_validator' = NoKql
                        /\ notices' = notices + 1
                   ELSE /\ validators' = Append(AlwaysEnabled, "KQL Validator")
                        /\ kql_validator' = [present |-> TRUE,
                                             global_state |-> kql_schema /\ built]
                        /\ notices' = notices
    /\ UNCHANGED runVars

(***************************************************************************)
(* validate_file and validate_directory (linter.py).                       *)
(***************************************************************************)
\* sorted(files)
RECURSIVE SortedSeq(_)
SortedSeq(S) ==
    IF S = {} THEN <<>>
    ELSE LET least == CHOOSE x \in S : \A y \in S : x <= y
         IN  <<least>> \o SortedSeq(S \ {least})

\* scan_yaml_files: the record files under the directory, sorted
scan_yaml_files(directory) == SortedSeq(directory)

\* main() with a file argument: linter.validate_file(args.file)
StartFile(f) ==
    /\ pc = "idle"
    /\ linters > 0
    /\ mode' = "file"
    /\ yaml_files' = <<>>
    /\ all_yaml_files' = NoFiles
    /\ file_idx' = 0
    /\ file_path' = f
    /\ pc' = "load"
    /\ store' \in StoresOver({f}, Contents)
    /\ UNCHANGED <<rule_data, v_idx, pending, result, results, calls>>
    /\ UNCHANGED linterVars

\* validate_directory up to the first validate_file call
StartDirectory(directory) ==
    /\ pc = "idle"
    /\ linters > 0
    /\ mode' = "directory"
    /\ yaml_files' = scan_yaml_files(directory)
    /\ IF yaml_files' = <<>>
       THEN /\ pc' = "done"
            /\ UNCHANGED <<all_yaml_files, file_idx, file_path>>
       ELSE /\ pc' = "load"
            /\ all_yaml_files' = FileList(yaml_files')
            /\ file_idx' = 1
            /\ file_path' = yaml_files'[1]
    /\ store' \in StoresOver(directory, DirectoryContents)
    /\ UNCHANGED <<rule_data, v_idx, pending, result, results, calls>>
    /\ UNCHANGED linterVars

\* validate_file: the new outcome and the load
LoadFile ==
    /\ pc = "load"
    /\ LET loaded == load_yaml_file(store, file_path)
       IN  IF loaded.raised = "YAMLLoadError"
           THEN /\ result' = add_error(NewResult(file_path), "YAML Parser",
                                       loaded.message, None)
                /\ pc' = "return"
                /\ UNCHANGED rule_data
           ELSE IF loaded.raised # "no"
           THEN /\ result' = add_error(NewResult(file_path), "File Loader",
                                       loaded.message, None)
                /\ pc' = "return"
                /\ UNCHANGED rule_data
           ELSE /\ result' = NewResult(file_path)
                /\ rule_data' = loaded.data
                /\ pc' = IF validators = <<>> THEN "return" ELSE "validators"
    /\ v_idx' = 1
    /\ pending' = <<>>
    /\ calls' = <<>>
    /\ UNCHANGED <<store, mode, yaml_files, all_yaml_files, file_idx, file_path, results>>
    /\ UNCHANGED linterVars

\* validator.validate(rule_data, file_path, all_yaml_files)
Validate(name, data, path, all_files, files, kql, env) ==
    CASE name = "GUID Validator" -> GuidValidate(data, path, all_files, files)
      [] name = "Schema Validator" -> SchemaValidate(data)
      [] name = "Entity Validator" -> EntityValidate(data)
      [] name = "Timing Validator" -> TimingValidate(data)
      [] name = "KQL Validator" -> KQLValidate(data, kql.global_state, env)

\* the loop position after validator v_idx is finished
AfterValidator ==
    /\ v_idx' = v_idx + 1
    /\ pc' = IF v_idx + 1 > Len(validators) THEN "return" ELSE "validators"

\* faulty variant: the exception is swallowed
ValidatorCrashedSilently(r, validator_name) == r

\* the except-branch of the loop: one error naming the validator
ValidatorCrashed(r, validator_name) ==
    add_error(r, validator_name, Msg("Validator crashed"), None)

\* faulty variant: the outcome of a file that did not load is not reported
CollectedLoadedOnly(rs, r) ==
    IF r.errors # <<>> /\ r.errors[1].validator = "YAML Parser" THEN rs ELSE Append(rs, r)

\* results.append(result)
Collected(rs, r) == Append(rs, r)

Call(name, out) ==
    [validator |-> name, raised |-> out.raised, returned |-> Len(out.errors),
     loads |-> out.loads]

\* one iteration of `for validator in self.validators` up to the return of
\* validate, or its except-branch
RunValidator ==
    /\ pc = "validators"
    /\ v_idx <= Len(validators)
    /\ \E env \in (IF validators[v_idx] = "KQL Validator" THEN KqlEnvs ELSE {NoEnv}) :
          LET out == Validate(validators[v_idx], rule_data, file_path, all_yaml_files,
                              store, kql_validator, env)
          IN  /\ calls' = Append(calls, Call(validators[v_idx], out))
              /\ IF out.raised
                 THEN /\ result' = ValidatorCrashed(result, validators[v_idx])
                      /\ pending' = <<>>
                      /\ AfterValidator
                 ELSE /\ result' = result
                      /\ pending' = out.errors
                      /\ IF out.errors = <<>>
                         THEN AfterValidator
                         ELSE /\ pc' = "classify"
                              /\ v_idx' = v_idx
    /\ UNCHANGED <<store, mode, yaml_files, all_yaml_files, file_idx, file_path,
                   rule_data, results>>
    /\ UNCHANGED linterVars

\* error.get(key, default)
DiagGet(error, key, default) == IF key \in DOMAIN error THEN error[key] ELSE default

\* str.lower() of a severity
SeverityLower(severity) ==
    CASE severity \in {"warning", "Warning", "WARNING"} -> "warning"
      [] severity \in {"error", "Error", "ERROR"} -> "error"
      [] OTHER -> severity

\* faulty variant: a warning is dropped
ClassifiedErrorsOnly(r, validator_name, error) ==
    IF SeverityLower(DiagGet(error, "severity", "error")) = "warning"
    THEN r
    ELSE add_error(r, validator_name, DiagGet(error, "message", Msg("Unknown error")),
                   DiagGet(error, "field", None))

\* the body of `for error in errors`: one diagnostic recorded as a warning or
\* as an error
Classified(r, validator_name, error) ==
    LET severity == SeverityLower(DiagGet(error, "severity", "error"))
        message == DiagGet(error, "message", Msg("Unknown error"))
        field == DiagGet(error, "field", None)
    IN  IF severity = "warning"
        THEN add_warning(r, validator_name, message, field)
        ELSE add_error(r, validator_name, message, field)

\* faulty variant: each diagnostic is recorded in a fresh outcome
ClassifyStartsOver ==
    /\ pc = "classify"
    /\ pending # <<>>
    /\ result' = Classified(NewResult(file_path), validators[v_idx], Head(pending))
    /\ pending' = Tail(pending)
    /\ IF Tail(pending) = <<>>
       THEN AfterValidator
       ELSE UNCHANGED <<pc, v_idx>>
    /\ UNCHANGED <<store, mode, yaml_files, all_yaml_files, file_idx, file_path,
                   rule_data, results, calls>>
    /\ UNCHANGED linterVars

\* one iteration of `for error in errors`
Classify ==
    /\ pc = "classify"
    /\ pending # <<>>
    /\ result' = Classified(result, validators[v_idx], Head(pending))
    /\ pending' = Tail(pending)
    /\ IF Tail(pending) = <<>>
       THEN AfterValidator
       ELSE UNCHANGED <<pc, v_idx>>
    /\ UNCHANGED <<store, mode, yaml_files, all_yaml_files, file_idx, file_path,
                   rule_data, results, calls>>
    /\ UNCHANGED linterVars

\* faulty variant: a file that did not load is tried again
ReturnResultRetries ==
    /\ pc = "return"
    /\ IF mode = "directory" /\ store[file_path].kind # "mapping"
       THEN /\ pc' = "load"
            /\ UNCHANGED <<file_idx, file_path, results>>
       ELSE /\ results' = Collected(results, result)
            /\ IF mode = "directory" /\ file_idx < Len(yaml_files)
               THEN /\ file_idx' = file_idx + 1
                    /\ file_path' = yaml_files[file_idx + 1]
                    /\ pc' = "load"
               ELSE /\ pc' = "done"
                    /\ UNCHANGED <<file_idx, file_path>>
    /\ UNCHANGED <<store, mode, yaml_files, all_yaml_files, rule_data, v_idx,
                   pending, result, calls>>
    /\ UNCHANGED linterVars

\* validate_file returns; validate_directory appends the outcome and goes on
\* to the next file
ReturnResult ==
    /\ pc = "return"
    /\ results' = Collected(results, result)
    /\ IF mode = "directory" /\ file_idx < Len(yaml_files)
       THEN /\ file_idx' = file_idx + 1
            /\ file_path' = yaml_files[file_idx + 1]
            /\ pc' = "load"
       ELSE /\ pc' = "done"
            /\ UNCHANGED <<file_idx, file_path>>
    /\ UNCHANGED <<store, mode, yaml_files, all_yaml_files, rule_data, v_idx,
                   pending, result, calls>>
    /\ UNCHANGED linterVars

Next ==
    \/ \E kql_schema, enable_kql_validation, available, built \in BOOLEAN :
          Construct(kql_schema, enable_kql_validation, available, built)
    \/ \E f \in Files : StartFile(f)
    \/ \E directory \in SUBSET Files : StartDirectory(directory)
    \/ LoadFile
    \/ RunValidator
    \/ Classify
    \/ ReturnResult

Spec == Init /\ [][Next]_vars

(***************************************************************************)
(* GuidValidator.validate applied to one record: the identifier values,    *)
(* the sibling lists and the sibling contents it is applied to.            *)
(***************************************************************************)
GuidIdValues ==
    {NoneV, IntV(5), BoolV(TRUE), ListV(<<>>),
     StrV(<<>>), StrV(<<"x","y","z">>),
     StrV(GuidA), StrV(GuidAUpper), StrV(GuidC), StrV(GuidANoDash),
     StrV(<<"{">> \o GuidA \o <<"}">>),
     StrV(<<"u","r","n",":","u","u","i","d",":">> \o GuidA),
     StrV(<<" ">> \o GuidA \o <<" ">>),
     StrV(SubSeq(GuidA, 1, 35)),
     StrV(<<"g">> \o SubSeq(GuidA, 2, 36))}

GuidRecords ==
    {Without(GoodRule, "id"), BadRule, EmptyDict}
    \cup {With(GoodRule, "id", v) : v \in GuidIdValues}

SiblingContents ==
    {Unloadable("missing"), Unloadable("malformed"),
     Mapping(Without(GoodRule, "id")), Mapping(With(GoodRule, "id", NoneV)),
     Mapping(GoodRule), Mapping(With(GoodRule, "id", StrV(GuidC))),
     Mapping(With(GoodRule, "id", StrV(GuidANoDash))),
     Mapping(With(GoodRule, "id", StrV(<<" ">> \o GuidAUpper \o <<" ">>)))}

SiblingLists == {NoFiles} \cup {FileList(SortedSeq(D)) : D \in SUBSET Files}

InitGuid ==
    /\ dll_loaded = FALSE
    /\ load_attempts = 0
    /\ linters = 0
    /\ notices = 0
    /\ validators = <<"GUID Validator">>
    /\ kql_validator = NoKql
    /\ pc = "guid"
    /\ mode = "none"
    /\ yaml_files = <<>>
    /\ file_idx = 0
    /\ file_path \in Files
    /\ rule_data \in GuidRecords
    /\ all_yaml_files \in SiblingLists
    /\ \E c \in [Files -> SiblingContents] :
          store = [f \in Files |-> IF f = file_path THEN Mapping(rule_data) ELSE c[f]]
    /\ v_idx = 1
    /\ pending = <<>>
    /\ result = NewResult(0)
    /\ results = <<>>
    /\ calls = <<>>

\* errors = GuidValidator().validate(rule_data, file_path, all_files)
GuidCall ==
    /\ pc = "guid"
    /\ LET out == GuidValidate(rule_data, file_path, all_yaml_files, store)
       IN  /\ pending' = out.errors
           /\ calls' = <<Call("GUID Validator", out)>>
    /\ pc' = "guid_done"
    /\ UNCHANGED <<store, mode, yaml_files, all_yaml_files, file_idx, file_path,
                   rule_data, v_idx, result, results>>
    /\ UNCHANGED linterVars

NextGuid == GuidCall

SpecGuid == InitGuid /\ [][NextGuid]_vars

(***************************************************************************)
(* Properties.                                                             *)
(***************************************************************************)
\* the entries of a list of an outcome that name a validator
CountIn(entries, name) ==
    Cardinality({i \in 1..Len(entries) : entries[i].validator = name})

Outcomes == {result} \cup {results[i] : i \in 1..Len(results)}

\* C1: in every state of an outcome, after construction and after every
\* add_error and add_warning, passed is true exactly when errors is empty.
PassedIffNoErrors ==
    \A r \in Outcomes : r.passed <=> (r.errors = <<>>)

\* an outcome that has received both an error and a warning
PassedIffNoErrorsWitness ==
    result.errors # <<>> /\ result.warnings # <<>> /\ ~result.passed

\* C2: when a validator raises for a loaded record, the outcome holds exactly
\* one diagnostic naming it (the crash error), and every validator of the
\* list has been called, in order, with the diagnostics of those that
\* returned all recorded.
CrashIsolated ==
    (pc = "return" /\ store[file_path].kind = "mapping") =>
        /\ Len(calls) = Len(validators)
        /\ \A i \in 1..Len(calls) :
              /\ calls[i].validator = validators[i]
              /\ IF calls[i].raised
                 THEN /\ CountIn(result.errors, validators[i]) = 1
                      /\ CountIn(result.warnings, validators[i]) = 0
                      /\ \E k \in 1..Len(result.errors) :
                            /\ result.errors[k].validator = validators[i]
                            /\ result.errors[k].message = Msg("Validator crashed")
                 ELSE CountIn(result.errors, validators[i])
                        + CountIn(result.warnings, validators[i]) = calls[i].returned

\* a validator raised and a later one returned diagnostics
CrashIsolatedWitness ==
    /\ pc = "return"
    /\ \E i \in 1..Len(calls) : \E j \in 1..Len(calls) :
          i < j /\ calls[i].raised /\ calls[j].returned > 0

\* C3: when the load fails, for whatever reason, validate_file returns an
\* outcome for the file with exactly one error, attributed to the loader, no
\* warning and passed false, and no validator is called.
LoaderNames == {"YAML Parser", "File Loader"}

LoadFailureIsFatal ==
    (pc = "return" /\ store[file_path].kind # "mapping") =>
        /\ result.file_path = file_path
        /\ Len(result.errors) = 1
        /\ result.errors[1].validator \in LoaderNames
        /\ result.warnings = <<>>
        /\ ~result.passed
        /\ calls = <<>>

\* an empty file has just been refused
LoadFailureIsFatalWitness ==
    pc = "return" /\ store[file_path].kind = "empty" /\ Len(result.errors) = 1

\* C4: a directory run returns one outcome per enumerated file, in the
\* order of the enumeration and each for its file, whatever fails to load
\* and whichever validator raises.
OneOutcomePerFile ==
    (pc = "done" /\ mode = "directory") =>
        /\ Len(results) = Len(yaml_files)
        /\ \A i \in 1..Len(results) : results[i].file_path = yaml_files[i]

\* a finished directory run in which a file did not load and a validator
\* raised
OneOutcomePerFileWitness ==
    /\ pc = "done"
    /\ mode = "directory"
    /\ Len(yaml_files) >= 2
    /\ \E i \in 1..Len(yaml_files) : store[yaml_files[i]].kind # "mapping"
    /\ \E j \in 1..Len(results) : \E k \in 1..Len(results[j].errors) :
          results[j].errors[k].message = Msg("Validator crashed")

\* C5: for a loaded record the seven validators are called once each in the
\* order identifier, schema, constraints, entity, naming, timing, query
\* language (the last when available).
SevenValidators ==
    <<"GUID Validator", "Schema Validator", "Sentinel Constraints Validator",
      "Entity Validator", "ASIM Field Validator", "Timing Validator", "KQL Validator">>

SevenValidatorsInOrder ==
    (pc = "return" /\ store[file_path].kind = "mapping") =>
        [i \in 1..Len(calls) |-> calls[i].validator]
            = IF kql_validator.present THEN SevenValidators
              ELSE SubSeq(SevenValidators, 1, 6)

\* C6: recording a warning leaves errors and passed as they are, and an
\* outcome with no error has passed true.
WarningsNeverFail ==
    /\ [][Len(result'.warnings) > Len(result.warnings) =>
            (result'.errors = result.errors /\ result'.passed = result.passed)]_vars
    /\ [](\A r \in Outcomes : (r.errors = <<>>) => r.passed)

\* a returned outcome whose diagnostics are all warnings
WarningsNeverFailWitness ==
    /\ pc = "done"
    /\ \E i \in 1..Len(results) :
          results[i].warnings # <<>> /\ results[i].errors = <<>> /\ results[i].passed

\* C7: a construction whose library load fails still yields a linter, with
\* the four always-enabled validators and one startup notice; a linter with
\* no query-language validator never records a diagnostic under that name,
\* and no notice is printed during a run.
KqlUnavailableIsOmitted ==
    /\ [][(load_attempts' > load_attempts /\ ~dll_loaded') =>
            /\ linters' = linters + 1
            /\ validators' = AlwaysEnabled
            /\ ~kql_validator'.present
            /\ notices' = notices + 1]_vars
    /\ [][pc # "idle" => notices' = notices]_vars
    /\ []((linters > 0 /\ ~kql_validator.present) =>
            \A r \in Outcomes :
                CountIn(r.errors, "KQL Validator") + CountIn(r.warnings, "KQL Validator") = 0)

\* the only construction failed to load the library, and a record has been
\* validated since
KqlUnavailableIsOmittedWitness ==
    /\ pc = "done"
    /\ linters = 1
    /\ notices = 1
    /\ ~kql_validator.present
    /\ results # <<>>
    /\ store[results[1].file_path].kind = "mapping"

\* C8: the native library load is attempted at most once in the life of the
\* process, a failed load included.
LoadAttemptedAtMostOnce == load_attempts <= 1

\* the record lacks 'id'
LacksId == "id" \notin DOMAIN rule_data

\* C9: for a record without 'id' the identifier validator returns exactly one
\* error and loads no sibling, with or without a sibling list.
MissingIdOneError ==
    (pc = "guid_done" /\ LacksId) =>
        /\ ~calls[1].raised
        /\ Len(pending) = 1
        /\ pending[1].severity = "error"
        /\ pending[1].field = Field("id")
        /\ calls[1].loads = <<>>

\* a record without 'id' validated with a list that holds a loadable sibling
MissingIdOneErrorWitness ==
    /\ pc = "guid_done"
    /\ LacksId
    /\ all_yaml_files.given
    /\ \E k \in 1..Len(all_yaml_files.files) :
          /\ all_yaml_files.files[k] # file_path
          /\ store[all_yaml_files.files[k]].kind = "mapping"

\* a string in the 8-4-4-4-12 hexadecimal grouping
IsCanonicalGuid(value) ==
    /\ value.t = "str"
    /\ Len(value.s) = 36
    /\ \A i \in 1..36 :
          IF i \in {9, 14, 19, 24} THEN value.s[i] = "-" ELSE value.s[i] \in HexDigits

\* C10: an 'id' that is no string in the canonical grouping gets exactly one
\* format error and no uniqueness check; only canonical values reach the
\* uniqueness check.
NonCanonicalIdRejected ==
    (pc = "guid_done" /\ ~LacksId /\ ~IsCanonicalGuid(rule_data["id"])) =>
        /\ Len(pending) = 1
        /\ pending[1].message = Msg("Field 'id' contains invalid GUID format")
        /\ calls[1].loads = <<>>

\* the normal form _find_duplicate_guids compares: str(v).strip().lower()
GuidNorm(v) == StrLower(StrStrip(PyStr(v)))

\* the record has an 'id' that is a string
HasStrId(data) == "id" \in DOMAIN data /\ data["id"].t = "str"

\* the diagnostics name file f as holding the same identifier
ReportsDuplicate(errors, f) ==
    \E i \in 1..Len(errors) :
        \E k \in 1..Len(errors[i].message.files) : errors[i].message.files[k] = f

\* the file is in the sibling list
InSiblingList(f) ==
    /\ all_yaml_files.given
    /\ \E k \in 1..Len(all_yaml_files.files) : all_yaml_files.files[k] = f

\* the sibling g is loadable and its 'id' equals the validated record's after
\* trimming and lower-casing
SameIdSibling(g) ==
    /\ g # file_path
    /\ InSiblingList(file_path)
    /\ InSiblingList(g)
    /\ store[g].kind = "mapping"
    /\ HasStrId(rule_data)
    /\ HasStrId(store[g].data)
    /\ GuidNorm(rule_data["id"]) = GuidNorm(store[g].data["id"])

\* C11: duplicate detection is symmetric: when two loadable records of one
\* sibling list have 'id' values equal after trimming and lower-casing,
\* validating either one reports the other as a duplicate.
DuplicateDetectionSymmetric ==
    pc = "guid_done" =>
        \A g \in Files :
            SameIdSibling(g) =>
                /\ ReportsDuplicate(pending, g)
                /\ ReportsDuplicate(
                       GuidValidate(store[g].data, g, all_yaml_files, store).errors,
                       file_path)

\* the sibling list without file g
WithoutSibling(all_files, g) ==
    [all_files EXCEPT !.files = SelectSeq(@, LAMBDA f : f # g)]

\* the sibling g is in the list and cannot be loaded
UnloadableSibling(g) ==
    /\ g # file_path
    /\ InSiblingList(g)
    /\ store[g].kind # "mapping"

\* C12: a sibling that fails to load is skipped silently by the uniqueness
\* check: the identifier validator does not raise, and the diagnostics of the
\* validated file are those it gets when that sibling is not in the list.
UnloadableSiblingHasNoEffect ==
    pc = "guid_done" =>
        \A g \in Files :
            UnloadableSibling(g) =>
                /\ ~calls[1].raised
                /\ pending = GuidValidate(rule_data, file_path,
                                          WithoutSibling(all_yaml_files, g), store).errors

\* the uniqueness check met a sibling that cannot be loaded
UnloadableSiblingHasNoEffectWitness ==
    /\ pc = "guid_done"
    /\ \E g \in Files :
          /\ UnloadableSibling(g)
          /\ \E k \in 1..Len(calls[1].loads) : calls[1].loads[k] = g

(***************************************************************************)
(* One validator applied to one record: the state before the call, and the *)
(* call.                                                                   *)
(***************************************************************************)
\* a key the record does not have
Absent == [t |-> "absent"]

WithOptional(rule, key, value) ==
    IF value = Absent THEN Without(rule, key) ELSE With(rule, key, value)

Key(key, value) == key :> value

\* validator.validate(rule_data, file_path) is about to be called, with no
\* sibling list
BeforeCall(validator_name, start) ==
    /\ dll_loaded = FALSE
    /\ load_attempts = 0
    /\ linters = 0
    /\ notices = 0
    /\ validators = <<validator_name>>
    /\ kql_validator = NoKql
    /\ store = [f \in Files |-> Unloadable("missing")]
    /\ pc = start
    /\ mode = "none"
    /\ yaml_files = <<>>
    /\ all_yaml_files = NoFiles
    /\ file_idx = 0
    /\ file_path = 1
    /\ v_idx = 1
    /\ pending = <<>>
    /\ result = NewResult(0)
    /\ results = <<>>
    /\ calls = <<>>

\* errors = validator.validate(rule_data, file_path): the list returned, or
\* the exception
Called(validator_name, out, start, done) ==
    /\ pc = start
    /\ pending' = out.errors
    /\ calls' = <<Call(validator_name, out)>>
    /\ pc' = done
    /\ UNCHANGED <<store, mode, yaml_files, all_yaml_files, file_idx, file_path,
                   rule_data, v_idx, result, results>>
    /\ UNCHANGED linterVars

(***************************************************************************)
(* SchemaValidator.validate applied to one record.                         *)
(***************************************************************************)
True == <<"t","r","u","e">>

GroupingConfigurationValues ==
    {NoneV, StrV(<<"x">>), ListV(<<>>), DictV(EmptyDict),
     DictV(Key("enabled", BoolV(TRUE))),
     DictV(Key("enabled", IntV(1))),
     DictV(Key("enabled", StrV(True)) @@ Key("lookbackDuration", IntV(5)))}

IncidentConfigurationValues ==
    {Absent, NoneV, StrV(<<"x">>), IntV(1), BoolV(TRUE), ListV(<<>>), DictV(EmptyDict),
     DictV(Key("createIncident", BoolV(TRUE))),
     DictV(Key("createIncident", StrV(True))),
     DictV(Key("createIncident", IntV(1)))}
    \cup {DictV(Key("groupingConfiguration", g)) : g \in GroupingConfigurationValues}

TriggerThresholdValues ==
    {Absent, NoneV, IntV(0), IntV(5), BoolV(TRUE), BoolV(FALSE), StrV(<<"1">>)}

EnabledValues == {Absent, BoolV(TRUE), BoolV(FALSE), IntV(1), IntV(0), StrV(True)}

SchemaRecords ==
    {WithOptional(WithOptional(WithOptional(GoodRule, "incidentConfiguration", c),
                               "triggerThreshold", t), "enabled", e) :
        c \in IncidentConfigurationValues, t \in TriggerThresholdValues,
        e \in EnabledValues}

InitSchema ==
    /\ BeforeCall("Schema Validator", "schema")
    /\ rule_data \in SchemaRecords

SchemaCall == Called("Schema Validator", SchemaValidate(rule_data), "schema", "schema_done")

NextSchema == SchemaCall

SpecSchema == InitSchema /\ [][NextSchema]_vars

\* along path[k..], below the mapping `current`, a segment before the last
\* is missing or holds no mapping
RECURSIVE IntermediateBroken(_, _, _)
IntermediateBroken(current, path, k) ==
    IF k >= Len(path) THEN FALSE
    ELSE \/ path[k] \notin DOMAIN current.d
         \/ current.d[path[k]].t # "dict"
         \/ IntermediateBroken(current.d[path[k]], path, k + 1)

\* the diagnostics hold one for this field
HasDiagnosticOn(errors, field) ==
    \E j \in 1..Len(errors) : "field" \in DOMAIN errors[j] /\ errors[j].field = field

\* C13: for every dot-path of the expected-type map, a record in which a
\* segment before the last is missing or is no mapping gets no diagnostic for
\* that path from the schema validator.
AbsentParentNoDiagnostic ==
    pc = "schema_done" =>
        \A i \in 1..Len(EXPECTED_TYPES) :
            IntermediateBroken(DictV(rule_data), EXPECTED_TYPES[i].path, 1) =>
                ~HasDiagnosticOn(pending, Field(EXPECTED_TYPES[i].name))

\* the schema validator ran on a record whose incidentConfiguration is a
\* string, and on one whose groupingConfiguration is a list
AbsentParentNoDiagnosticWitness ==
    /\ pc = "schema_done"
    /\ "incidentConfiguration" \in DOMAIN rule_data
    /\ \/ rule_data["incidentConfiguration"].t = "str"
       \/ /\ rule_data["incidentConfiguration"].t = "dict"
          /\ "groupingConfiguration" \in DOMAIN rule_data["incidentConfiguration"].d
          /\ rule_data["incidentConfiguration"].d["groupingConfiguration"].t = "list"

\* the value at the end of the path, when every segment is present
RECURSIVE LeafOf(_, _, _)
LeafOf(current, path, k) ==
    IF k > Len(path) THEN current
    ELSE IF current.t # "dict" \/ path[k] \notin DOMAIN current.d THEN Absent
    ELSE LeafOf(current.d[path[k]], path, k + 1)

\* C14: the type check tells booleans from integers in both directions: a
\* boolean in an integer-typed field gets a type error, and an integer in a
\* boolean-typed field gets a type error.
BooleanIsNoInteger ==
    pc = "schema_done" =>
        \A i \in 1..Len(EXPECTED_TYPES) :
            LET e == EXPECTED_TYPES[i]
                leaf == LeafOf(DictV(rule_data), e.path, 1)
            IN  (\/ (e.type = "int" /\ leaf.t = "bool")
                 \/ (e.type = "bool" /\ leaf.t = "int"))
                    => HasDiagnosticOn(pending, Field(e.name))

(***************************************************************************)
(* SentinelConstraintsValidator.validate applied to one record: a record   *)
(* that meets every constraint, and the values each field is varied over   *)
(* (first those that meet the field's constraints, then those that do      *)
(* not).                                                                   *)
(***************************************************************************)
ValidKindValues == {StrV(<<"S","c","h","e","d","u","l","e","d">>), StrV(<<"N","R","T">>)}
KindValues ==
    ValidKindValues
    \cup {Absent, NoneV, StrV(<<>>), StrV(<<" "," ">>), StrV(<<"s","c","h","e","d","u","l","e","d">>), IntV(5), IntV(0),
          BoolV(TRUE), ListV(<<StrV(<<"S","c","h","e","d","u","l","e","d">>)>>)}

ValidSeverityValues == {StrV(<<"H","i","g","h">>), StrV(<<"I","n","f","o","r","m","a","t","i","o","n","a","l">>)}
SeverityValues == ValidSeverityValues \cup {Absent, StrV(<<"h","i","g","h">>), IntV(1)}

ValidTriggerOperatorValues == {StrV(<<"g","t">>), StrV(<<"G","r","e","a","t","e","r","T","h","a","n">>)}
TriggerOperatorValues == ValidTriggerOperatorValues \cup {Absent, StrV(<<"G","t">>), IntV(1)}

ValidThresholdValues == {Absent, IntV(0), IntV(5), IntV(10000)}
ThresholdValues ==
    ValidThresholdValues
    \cup {NoneV, IntV(10001), IntV(-1), BoolV(TRUE), BoolV(FALSE), StrV(<<"1">>)}

ValidTacticsValues ==
    {Absent, ListV(<<>>), ListV(<<StrV(<<"I","n","i","t","i","a","l","A","c","c","e","s","s">>)>>),
     ListV(<<StrV(<<"I","m","p","a","c","t">>), StrV(<<"C","o","m","m","a","n","d","A","n","d","C","o","n","t","r","o","l">>)>>)}
TacticsValues ==
    ValidTacticsValues
    \cup {StrV(<<"I","n","i","t","i","a","l","A","c","c","e","s","s">>), ListV(<<StrV(<<"I","n","i","t","i","a","l"," ","A","c","c","e","s","s">>)>>),
          ListV(<<StrV(<<"F","o","o">>)>>), ListV(<<IntV(1), StrV(<<"I","m","p","a","c","t">>)>>)}

\* technique ids: well formed, then malformed
TechniqueIds ==
    {<<"T","1","0","7","8">>, <<"T","1","0","7","8",".","0","0","1">>, <<"T","1","0","0","0">>, <<"T","1","9","9","9">>, <<"T","1","0","7","8",".","1">>, <<"T","1","0","7","8",".","9","9","9">>}
    \cup {<<"T","1","0","7","8",".","1","0","0","0">>, <<"T","2","0","7","8">>, <<"T","0","9","9","9">>, <<"T","9","9","9">>, <<"T","1","0","7","8",".","0","0","0">>, <<"T","1","0","7","8",".">>,
          <<"t","1","0","7","8">>, <<" ","T","1","0","7","8">>, <<"T","1","0","7","8","0">>, <<"T","1","0","7","8","\n">>, <<"T","1","0","7","8",".","0","0","1","\n">>, <<"T","1","0","7","8","\n","\n">>,
          <<"T","2","0","7","8","\n">>, <<"1","0","7","8">>, <<"T","1","O","7","8">>}

ValidTechniquesValues ==
    {Absent, ListV(<<>>), ListV(<<StrV(<<"T","1","0","7","8">>), StrV(<<"T","1","0","7","8",".","0","0","1">>)>>)}
TechniquesValues ==
    ValidTechniquesValues
    \cup {StrV(<<"T","1","0","7","8">>), ListV(<<IntV(1078)>>)}
    \cup {ListV(<<StrV(t)>>) : t \in TechniqueIds}
    \cup {ListV(<<StrV(<<"T","1","0","7","8">>), StrV(t)>>) : t \in {<<"T","2","0","7","8">>, <<"T","1","0","7","8",".","1","0","0","0">>}}

ValidNameValues == {Absent, StrV(<<"r">>), StrV(Rep("n", 50))}
NameValues ==
    ValidNameValues
    \cup {StrV(Rep("n", 51)), StrV(<<"r",".">>), StrV(Rep("n", 50) \o <<".">>), StrV(<<>>), IntV(1)}

ValidDescriptionValues == {Absent, StrV(<<"d">>), StrV(Rep("d", 255))}
DescriptionValues == ValidDescriptionValues \cup {StrV(Rep("d", 256)), IntV(1)}

ValidQueryValues == {Absent, StrV(<<"q">>), StrV(Rep("q", 10000))}
QueryValues == ValidQueryValues \cup {StrV(Rep("q", 10001))}

ValidVersionValues == {Absent, StrV(<<"1",".","0",".","0">>), StrV(<<"1","0",".","2","0",".","3","0">>)}
VersionValues ==
    ValidVersionValues
    \cup {NoneV, StrV(<<>>), StrV(<<" ">>), StrV(<<"1",".","0">>), StrV(<<"1",".","0",".","0",".","0">>), StrV(<<"v","1",".","0",".","0">>),
          StrV(<<"1",".",".","0">>), StrV(<<"1",".","0",".","0","\n">>), IntV(1), IntV(0)}

ValidEventGroupingValues ==
    {Absent, DictV(EmptyDict), DictV(Key("aggregationKind", StrV(<<"S","i","n","g","l","e","A","l","e","r","t">>)))}
EventGroupingValues ==
    ValidEventGroupingValues
    \cup {StrV(<<"x">>), DictV(Key("aggregationKind", StrV(<<"s","i","n","g","l","e">>))),
          DictV(Key("aggregationKind", IntV(1)))}

Entities(n, m) ==
    ListV([i \in 1..n |-> EntityMapping(AccountT, [j \in 1..m |-> FieldMapping(NameId, ColC)])])

ValidEntityMappingsValues == {Absent, ListV(<<>>), Entities(1, 1), Entities(10, 3)}
EntityMappingsValues ==
    ValidEntityMappingsValues
    \cup {Entities(11, 1), Entities(2, 4), StrV(<<"x">>), ListV(<<StrV(<<"x">>)>>)}

DetailKeys ==
    {"k01", "k02", "k03", "k04", "k05", "k06", "k07", "k08", "k09", "k10", "k11",
     "k12", "k13", "k14", "k15", "k16", "k17", "k18", "k19", "k20", "k21"}
Details(keys) == DictV([k \in keys |-> StrV(ColC)])

ValidCustomDetailsValues ==
    {Absent, DictV(EmptyDict), Details({"k01"}), Details(DetailKeys \ {"k21"})}
CustomDetailsValues == ValidCustomDetailsValues \cup {Details(DetailKeys), StrV(<<"x">>)}

NameFormat(text) == DictV(Key("alertDisplayNameFormat", text))

ValidAlertOverrideValues ==
    {Absent, DictV(EmptyDict), NameFormat(StrV(<<"a"," ","{","{","C","}","}">>)),
     NameFormat(StrV(<<"{","{","C","}","}","{","{","D","}","}","{","{","e","_","1","}","}">>)), NameFormat(StrV(Rep("a", 256))),
     DictV(Key("alertDescriptionFormat", StrV(Rep("a", 5000))))}
AlertOverrideValues ==
    ValidAlertOverrideValues
    \cup {StrV(<<"x">>), NameFormat(StrV(<<"{","{"," ","C"," ","}","}">>)), NameFormat(StrV(<<"{","{","C","}","}","{","{","C"," ","}","}">>)),
          NameFormat(StrV(<<"{","{","C","}","}","{","{","C","}","}","{","{","C","}","}","{","{","C","}","}">>)), NameFormat(StrV(Rep("a", 257))),
          NameFormat(IntV(5)),
          DictV(Key("alertDescriptionFormat", StrV(Rep("a", 5001))))}

Grouping(g) == DictV(Key("groupingConfiguration", g))
Lookback(enabled, lookback) ==
    Grouping(DictV(WithOptional(Key("enabled", enabled), "lookbackDuration", lookback)))

\* lookback durations of 3 to 24 hours, and others
ValidLookbacks == {<<"5","h">>, <<"3","h">>, <<"2","4","h">>, <<"1","d">>, <<"1","8","0","m">>, <<"1","4","4","0","m">>}
Lookbacks ==
    ValidLookbacks
    \cup {<<"2","h">>, <<"2","5","h">>, <<"2","d">>, <<"1","7","9","m">>, <<"1","4","4","1","m">>, <<"0","h">>, <<"5">>, <<"h">>, <<"5","x">>, <<"5","s">>,
          <<"3",".","5","h">>, <<"2",".","9","9","h">>, <<".","5","d">>, <<"1","e","1","h">>, <<"1","e","-","1","d">>, <<"1","_","0","h">>, <<"1","_","_","0","h">>, <<"n","a","n","h">>,
          <<"i","n","f","h">>, <<"-","i","n","f","h">>, <<"-","5","h">>, <<" ","5","H"," ">>, <<"5"," ","h">>, <<"1",".","2",".","3","h">>, <<"+","2","4",".","0","h">>}

ValidIncidentConfigurationValues ==
    {Absent, DictV(EmptyDict), Grouping(DictV(EmptyDict)),
     Lookback(BoolV(FALSE), Absent), Lookback(BoolV(FALSE), StrV(<<"1","h">>)),
     Lookback(BoolV(TRUE), Absent)}
    \cup {Lookback(BoolV(TRUE), StrV(d)) : d \in ValidLookbacks}
ConstraintIncidentValues ==
    ValidIncidentConfigurationValues
    \cup {NoneV, StrV(<<"x">>), Grouping(NoneV), Grouping(StrV(<<"x">>)),
          Lookback(BoolV(TRUE), IntV(5)), Lookback(BoolV(TRUE), StrV(<<>>)),
          Lookback(IntV(1), Absent)}
    \cup {Lookback(BoolV(TRUE), StrV(d)) : d \in Lookbacks}

\* a record that meets every constraint, with every governed field present
ConstraintRule ==
    With(With(With(With(With(With(With(With(With(With(With(GoodRule,
        "kind", StrV(<<"S","c","h","e","d","u","l","e","d">>)), "severity", StrV(<<"H","i","g","h">>)),
        "triggerOperator", StrV(<<"g","t">>)),
        "tactics", ListV(<<StrV(<<"I","n","i","t","i","a","l","A","c","c","e","s","s">>)>>)),
        "relevantTechniques", ListV(<<StrV(<<"T","1","0","7","8">>), StrV(<<"T","1","0","7","8",".","0","0","1">>)>>)),
        "version", StrV(<<"1",".","0",".","0">>)),
        "eventGroupingSettings", DictV(Key("aggregationKind", StrV(<<"S","i","n","g","l","e","A","l","e","r","t">>)))),
        "customDetails", Details({"k01"})),
        "alertDetailsOverride", NameFormat(StrV(<<"a"," ","{","{","C","}","}">>))),
        "incidentConfiguration", Lookback(BoolV(TRUE), StrV(<<"5","h">>))),
        "description", StrV(<<"d">>))

\* field -> the values it is varied over, and those among them that meet
\* the constraints on the field
ConstraintFields == <<
    [key |-> "kind", values |-> KindValues, valid |-> ValidKindValues],
    [key |-> "severity", values |-> SeverityValues, valid |-> ValidSeverityValues],
    [key |-> "triggerOperator", values |-> TriggerOperatorValues,
     valid |-> ValidTriggerOperatorValues],
    [key |-> "triggerThreshold", values |-> ThresholdValues, valid |-> ValidThresholdValues],
    [key |-> "tactics", values |-> TacticsValues, valid |-> ValidTacticsValues],
    [key |-> "relevantTechniques", values |-> TechniquesValues,
     valid |-> ValidTechniquesValues],
    [key |-> "name", values |-> NameValues, valid |-> ValidNameValues],
    [key |-> "description", values |-> DescriptionValues, valid |-> ValidDescriptionValues],
    [key |-> "query", values |-> QueryValues, valid |-> ValidQueryValues],
    [key |-> "version", values |-> VersionValues, valid |-> ValidVersionValues],
    [key |-> "eventGroupingSettings", values |-> EventGroupingValues,
     valid |-> ValidEventGroupingValues],
    [key |-> "entityMappings", values |-> EntityMappingsValues,
     valid |-> ValidEntityMappingsValues],
    [key |-> "customDetails", values |-> CustomDetailsValues,
     valid |-> ValidCustomDetailsValues],
    [key |-> "alertDetailsOverride", values |-> AlertOverrideValues,
     valid |-> ValidAlertOverrideValues],
    [key |-> "incidentConfiguration", values |-> ConstraintIncidentValues,
     valid |-> ValidIncidentConfigurationValues] >>

\* the records: one field of ConstraintRule varied, and version varied
\* together with incidentConfiguration
ConstraintRecords ==
    UNION {{WithOptional(ConstraintRule, ConstraintFields[i].key, v) :
                v \in ConstraintFields[i].values} : i \in 1..Len(ConstraintFields)}
    \cup {WithOptional(WithOptional(ConstraintRule, "version", v),
                       "incidentConfiguration", c) :
            v \in {Absent, StrV(<<"1",".","0">>), IntV(1)},
            c \in {Absent, Lookback(BoolV(TRUE), Absent), Lookback(BoolV(TRUE), StrV(<<"2","h">>))}}

InitConstraints ==
    /\ BeforeCall("Sentinel Constraints Validator", "constraints")
    /\ rule_data \in ConstraintRecords

ConstraintsCall ==
    Called("Sentinel Constraints Validator", SentinelConstraintsValidate(rule_data),
           "constraints", "constraints_done")

NextConstraints == ConstraintsCall

SpecConstraints == InitConstraints /\ [][NextConstraints]_vars

\* the value the record holds under the key
FieldValue(data, key) == IF key \in DOMAIN data THEN data[key] ELSE Absent

\* every field the constraint validator governs holds a value that meets the
\* constraints on it, or (where the field is optional) is absent
SatisfiesEveryConstraint ==
    \A i \in 1..Len(ConstraintFields) :
        FieldValue(rule_data, ConstraintFields[i].key) \in ConstraintFields[i].valid

\* C15: a record that meets every enum, range, length, structural and format
\* constraint gets an empty diagnostic list from
\* SentinelConstraintsValidator.validate.
ValidRecordNoDiagnostics ==
    (pc = "constraints_done" /\ SatisfiesEveryConstraint) =>
        /\ ~calls[1].raised
        /\ pending = <<>>

\* the governing fields that are not in the schema validator's required list
OptionalGoverningFields ==
    {ConstraintFields[i].key : i \in 1..Len(ConstraintFields)}
        \ {REQUIRED_FIELDS[i] : i \in 1..Len(REQUIRED_FIELDS)}

\* grouping is enabled and no lookbackDuration is given
EnabledWithoutLookback ==
    /\ FieldValue(rule_data, "incidentConfiguration").t = "dict"
    /\ LET grouping == FieldValue(rule_data["incidentConfiguration"].d,
                                  "groupingConfiguration")
       IN  /\ grouping.t = "dict"
           /\ Truthy(FieldValue(grouping.d, "enabled"))
           /\ "lookbackDuration" \notin DOMAIN grouping.d

\* C16: a constraint group is skipped when its governing field is absent:
\* the absence of a field that is not in the schema validator's required
\* list (version, or lookbackDuration under an enabled grouping
\* configuration) gets no diagnostic from the constraint validator.
AbsentFieldSkipsGroup ==
    pc = "constraints_done" =>
        /\ \A key \in OptionalGoverningFields :
              key \notin DOMAIN rule_data => ~HasDiagnosticOn(pending, Field(key))
        /\ EnabledWithoutLookback =>
              ~HasDiagnosticOn(pending,
                  Field("incidentConfiguration.groupingConfiguration.lookbackDuration"))

\* 'T', four digits with a value in 1000..1999, then nothing or '.' and one
\* to three digits with a value in 1..999
IsTechniqueId(s) ==
    /\ Len(s) \in {5, 7, 8, 9}
    /\ s[1] = "T"
    /\ s[2] = "1"
    /\ \A i \in 3..5 : s[i] \in {Digits[d] : d \in 1..10}
    /\ Len(s) > 5 =>
          /\ s[6] = "."
          /\ \A i \in 7..Len(s) : s[i] \in {Digits[d] : d \in 1..10}
          /\ \E i \in 7..Len(s) : s[i] # "0"

\* C17: the technique-id check accepts a string exactly when it is 'T' and
\* four digits in 1000..1999, optionally followed by '.' and a sub-id in
\* 1..999: each entry of relevantTechniques gets a format error exactly when
\* it is not of that form.
TechniqueIdAcceptedIffWellFormed ==
    (pc = "constraints_done" /\ ~calls[1].raised
        /\ FieldValue(rule_data, "relevantTechniques").t = "list") =>
        \A i \in 1..Len(rule_data["relevantTechniques"].items) :
            LET technique == rule_data["relevantTechniques"].items[i]
            IN  technique.t = "str" =>
                    (IsTechniqueId(technique.s)
                        <=> ~HasDiagnosticOn(pending,
                                FieldAt("relevantTechniques[i]", <<i - 1>>)))

(***************************************************************************)
(* TimingValidator.validate applied to one record.                         *)
(***************************************************************************)
\* durations of the form <int><unit>, then other strings
Durations ==
    {<<"1","0","m">>, <<"5","m">>, <<"1","5","d">>, <<"1","4","d">>, <<"1","d">>, <<"1","h">>, <<"6","0","m">>, <<"2","4","h">>, <<"2","5","h">>, <<"3","3","6","h">>,
     <<"3","3","7","h">>, <<"2","0","1","6","0","m">>, <<"2","0","1","6","1","m">>, <<"0","m">>, <<"5","M">>, <<"2","H">>}
    \cup {<<"1","5","d","\n">>, <<"5">>, <<"m">>, <<"5"," ","m">>, <<" ","5","m">>, <<"5","s">>, <<"1",".","5","h">>, <<"-","5","m">>}

TimeValues ==
    {Absent, NoneV, StrV(<<>>), IntV(5), IntV(0), ListV(<<StrV(<<"5","m">>)>>)}
    \cup {StrV(d) : d \in Durations}

TimingRecords ==
    {WithOptional(WithOptional(GoodRule, "queryFrequency", f), "queryPeriod", p) :
        f \in TimeValues, p \in TimeValues}

InitTiming ==
    /\ BeforeCall("Timing Validator", "timing")
    /\ rule_data \in TimingRecords

TimingCall == Called("Timing Validator", TimingValidate(rule_data), "timing", "timing_done")

NextTiming == TimingCall

SpecTiming == InitTiming /\ [][NextTiming]_vars

\* the value is a string of digits followed by one of m, h, d (in either
\* case)
IsDuration(value) ==
    /\ value.t = "str"
    /\ Len(value.s) >= 2
    /\ value.s[Len(value.s)] \in {"m", "h", "d", "M", "H", "D"}
    /\ \A i \in 1..(Len(value.s) - 1) : value.s[i] \in {Digits[d] : d \in 1..10}

\* the minutes of a duration: x1 for m, x60 for h, x1440 for d
MinutesOf(value) ==
    LET number == DecimalValue(SubSeq(value.s, 1, Len(value.s) - 1))
        unit == value.s[Len(value.s)]
    IN  IF unit \in {"m", "M"} THEN number
        ELSE IF unit \in {"h", "H"} THEN number * 60
        ELSE number * 1440

BothParse ==
    /\ IsDuration(FieldValue(rule_data, "queryFrequency"))
    /\ IsDuration(FieldValue(rule_data, "queryPeriod"))

ErrorsOn(errors, field) ==
    Cardinality({j \in 1..Len(errors) :
                    errors[j].severity = "error" /\ errors[j].field = field})

\* C18: when queryFrequency and queryPeriod both parse, the timing validator
\* returns one error exactly when the frequency's minutes exceed the
\* period's, plus one error exactly when the period's minutes exceed 20160,
\* and nothing else.
TimingErrorsIffExceeded ==
    (pc = "timing_done" /\ BothParse) =>
        LET freq == MinutesOf(rule_data["queryFrequency"])
            period == MinutesOf(rule_data["queryPeriod"])
        IN  /\ ~calls[1].raised
            /\ ErrorsOn(pending, Field("queryFrequency")) = (IF freq > period THEN 1 ELSE 0)
            /\ ErrorsOn(pending, Field("queryPeriod")) = (IF period > 20160 THEN 1 ELSE 0)
            /\ Len(pending) = (IF freq > period THEN 1 ELSE 0)
                                + (IF period > 20160 THEN 1 ELSE 0)

\* frequency 10m with period 5m: exactly one error
TimingErrorsIffExceededWitness ==
    /\ pc = "timing_done"
    /\ FieldValue(rule_data, "queryFrequency") = StrV(<<"1","0","m">>)
    /\ FieldValue(rule_data, "queryPeriod") = StrV(<<"5","m">>)
    /\ Len(pending) = 1

(***************************************************************************)
(* EntityValidator.validate applied to one record.                         *)
(***************************************************************************)
UpperChar(c) ==
    CASE c = "a" -> "A" [] c = "b" -> "B" [] c = "c" -> "C" [] c = "d" -> "D"
      [] c = "e" -> "E" [] c = "f" -> "F" [] c = "g" -> "G" [] c = "h" -> "H"
      [] c = "i" -> "I" [] c = "j" -> "J" [] c = "k" -> "K" [] c = "l" -> "L"
      [] c = "m" -> "M" [] c = "n" -> "N" [] c = "o" -> "O" [] c = "p" -> "P"
      [] c = "q" -> "Q" [] c = "r" -> "R" [] c = "s" -> "S" [] c = "t" -> "T"
      [] c = "u" -> "U" [] c = "v" -> "V" [] c = "w" -> "W" [] c = "x" -> "X"
      [] c = "y" -> "Y" [] c = "z" -> "Z" [] OTHER -> c
StrUpper(s) == [i \in 1..Len(s) |-> UpperChar(s[i])]

KnownTypes == {ENTITY_STRONG_IDENTIFIERS[k].type : k \in DOMAIN ENTITY_STRONG_IDENTIFIERS}
WhitelistOf(type) == ENTITY_STRONG_IDENTIFIERS[EntityTypeIndex(type)].ids
Whitelist(type) == {WhitelistOf(type)[k] : k \in DOMAIN WhitelistOf(type)}

\* every whitelist entry as written, in lower case and in upper case, and an
\* identifier that is in no whitelist
IdentifiersFor(type) ==
    Whitelist(type) \cup {StrLower(e) : e \in Whitelist(type)}
    \cup {StrUpper(e) : e \in Whitelist(type)} \cup {FooId}

\* entity types that are no exact key: two that match a key up to case, and
\* one that matches none
UnknownTypes == {StrLower(AccountT), StrUpper(AccountT), UnknownT}

OneEntity(type, identifier) ==
    ListV(<<EntityMapping(type, <<FieldMapping(identifier, ColC)>>)>>)

EntityMappingsInputs ==
    UNION {{OneEntity(t, id) : id \in IdentifiersFor(t)} : t \in KnownTypes}
    \cup {OneEntity(t, id) : t \in UnknownTypes, id \in {NameId, FooId}}
    \cup {ListV(<<EntityMapping(AccountT, <<FieldMapping(a, ColC), FieldMapping(b, ColD)>>),
                  EntityMapping(t, <<FieldMapping(c, ColC)>>)>>) :
            a \in {NameId, nameId}, b \in {FooId, <<"S","i","d">>}, c \in {<<"A","d","d","r","e","s","s">>, <<"a","d","d","r","e","s","s">>},
            t \in {<<"I","P">>, UnknownT}}
    \cup {Absent, NoneV, ListV(<<>>), DictV(<<>>), StrV(<<"A","c","c","o","u","n","t">>),
          ListV(<<StrV(<<"A","c","c","o","u","n","t">>)>>),
          ListV(<<DictV("fieldMappings" :> ListV(<<FieldMapping(NameId, ColC)>>))>>),
          ListV(<<DictV("entityType" :> StrV(AccountT))>>),
          ListV(<<EntityMapping(AccountT, <<DictV("columnName" :> StrV(ColC))>>)>>),
          ListV(<<EntityMapping(AccountT, <<DictV("identifier" :> StrV(NameId))>>)>>)}

EntityRecords == {WithOptional(GoodRule, "entityMappings", m) : m \in EntityMappingsInputs}

InitEntity ==
    /\ BeforeCall("Entity Validator", "entity")
    /\ rule_data \in EntityRecords

EntityCall == Called("Entity Validator", EntityValidate(rule_data), "entity", "entity_done")

NextEntity == EntityCall

SpecEntity == InitEntity /\ [][NextEntity]_vars

\* the entity mappings of the record when they are a list, and the field
\* mappings of entity i when they are a list
EntityItems ==
    IF "entityMappings" \in DOMAIN rule_data /\ rule_data["entityMappings"].t = "list"
    THEN rule_data["entityMappings"].items ELSE <<>>
MappingItems(i) ==
    IF EntityItems[i].t = "dict" /\ "fieldMappings" \in DOMAIN EntityItems[i].d
       /\ EntityItems[i].d["fieldMappings"].t = "list"
    THEN EntityItems[i].d["fieldMappings"].items ELSE <<>>

\* entity i has a non-empty string for entityType
HasEntityType(i) ==
    /\ EntityItems[i].t = "dict"
    /\ "entityType" \in DOMAIN EntityItems[i].d
    /\ EntityItems[i].d["entityType"].t = "str"
    /\ EntityItems[i].d["entityType"].s # <<>>
EntityTypeOf(i) == EntityItems[i].d["entityType"].s

\* field mapping j of entity i has a string identifier and a column name
HasIdentifier(i, j) ==
    /\ MappingItems(i)[j].t = "dict"
    /\ "identifier" \in DOMAIN MappingItems(i)[j].d
    /\ MappingItems(i)[j].d["identifier"].t = "str"
    /\ MappingItems(i)[j].d["identifier"].s # <<>>
    /\ "columnName" \in DOMAIN MappingItems(i)[j].d
    /\ Truthy(MappingItems(i)[j].d["columnName"])
IdentifierOf(i, j) == MappingItems(i)[j].d["identifier"].s

\* the diagnostics of the call on the identifier of field mapping j of entity i
IdentifierDiagnostics(i, j) ==
    SelectSeq(pending, LAMBDA e :
        e.field = FieldAt("entityMappings[i].fieldMappings[j].identifier",
                          <<i - 1, j - 1>>))

\* what the identifier of a field mapping under a known type is to yield
IdentifierOutcome(i, j) ==
    LET type == EntityTypeOf(i)
        identifier == IdentifierOf(i, j)
        found == IdentifierDiagnostics(i, j)
    IN  IF identifier \in Whitelist(type) THEN found = <<>>
        ELSE IF \E e \in Whitelist(type) : StrLower(e) = StrLower(identifier)
        THEN /\ Len(found) = 1
             /\ found[1].severity = "error"
             /\ "names" \in DOMAIN found[1].message
             /\ \E e \in Whitelist(type) :
                    /\ StrLower(e) = StrLower(identifier)
                    /\ found[1].message.names = <<e>>
        ELSE /\ Len(found) = 1
             /\ found[1].severity = "warning"

\* C19: for a field mapping under a known entity type, an identifier equal to
\* a whitelist entry yields no diagnostic, one that matches an entry only up
\* to case yields exactly one error naming the correctly-cased entry, and one
\* that matches no entry yields exactly one warning and no error
IdentifierCasingOutcome ==
    pc = "entity_done" =>
        \A i \in DOMAIN EntityItems :
            HasEntityType(i) /\ EntityTypeOf(i) \in KnownTypes =>
                \A j \in DOMAIN MappingItems(i) :
                    HasIdentifier(i, j) => IdentifierOutcome(i, j)

\* the order of str comparison on the letters entity types are written in
Letters == <<"A","B","C","D","E","F","G","H","I","J","K","L","M","N","O","P","Q","R","S","T","U","V","W","X","Y","Z","a","b","c","d","e","f","g","h","i","j","k","l","m","n","o","p","q","r","s","t","u","v","w","x","y","z">>
Rank(c) == CHOOSE k \in DOMAIN Letters : Letters[k] = c
StrLeq(a, b) ==
    \/ \E k \in 1..Len(a) :
          /\ k <= Len(b)
          /\ \A m \in 1..(k - 1) : a[m] = b[m]
          /\ Rank(a[k]) < Rank(b[k])
    \/ /\ Len(a) <= Len(b)
       /\ \A m \in 1..Len(a) : a[m] = b[m]

\* sorted(ENTITY_STRONG_IDENTIFIERS.keys())
IsSortedKnownTypes(names) ==
    /\ {names[k] : k \in DOMAIN names} = KnownTypes
    /\ Len(names) = Cardinality(KnownTypes)
    /\ \A k \in 1..(Len(names) - 1) : StrLeq(names[k], names[k + 1])

\* entity i has an entityType that is no exact key, and a field mapping with
\* identifier and columnName
UnknownTypeEntity(i) ==
    /\ HasEntityType(i)
    /\ EntityTypeOf(i) \notin KnownTypes
    /\ \E j \in DOMAIN MappingItems(i) : HasIdentifier(i, j)

\* an error on entityMappings[i].entityType that suggests the correctly-cased
\* type, or lists the known types in sorted order when there is none
EntityTypeError(e, i) ==
    /\ e.severity = "error"
    /\ e.field = FieldAt("entityMappings[i].entityType", <<i - 1>>)
    /\ "names" \in DOMAIN e.message
    /\ IF \E t \in KnownTypes : StrLower(t) = StrLower(EntityTypeOf(i))
       THEN \E t \in KnownTypes : /\ StrLower(t) = StrLower(EntityTypeOf(i))
                                  /\ e.message.names = <<t>>
       ELSE IsSortedKnownTypes(e.message.names)

\* C20: for an entity mapping whose entityType is no exact key of the known
\* entity types, and whose field mapping has identifier and columnName, the
\* validator returns an error on entityMappings[i].entityType that suggests
\* the correctly-cased type when one matches up to case, and lists the known
\* types in sorted order otherwise
UnknownEntityTypeIsAnError ==
    pc = "entity_done" =>
        \A i \in DOMAIN EntityItems :
            UnknownTypeEntity(i) =>
                /\ ~calls[1].raised
                /\ \E k \in DOMAIN pending : EntityTypeError(pending[k], i)

(***************************************************************************)
(* Every validator class applied to one record: the five the linter        *)
(* registers, ASIMFieldValidator and SentinelConstraintsValidator.         *)
(***************************************************************************)
ValidatorNames ==
    {"GUID Validator", "Schema Validator", "Entity Validator", "Timing Validator",
     "KQL Validator", "ASIM Field Validator", "Sentinel Constraints Validator"}

\* validator.validate(rule_data, file_path) with no sibling list
ValidateAny(name, data, files, kql, env) ==
    IF name = "Sentinel Constraints Validator" THEN SentinelConstraintsValidate(data)
    ELSE IF name = "ASIM Field Validator" THEN ASIMValidate(data)
    ELSE Validate(name, data, 1, NoFiles, files, kql, env)

\* one call of the validator under test; the parser behaviour and whether a
\* schema was configured are the environment of the KQL validator
AnyCall ==
    \E env \in (IF validators[1] = "KQL Validator" THEN KqlEnvs ELSE {NoEnv}) :
        \E global_state \in (IF validators[1] = "KQL Validator" THEN BOOLEAN ELSE {FALSE}) :
            Called(validators[1],
                   ValidateAny(validators[1], rule_data, store,
                               [present |-> TRUE, global_state |-> global_state], env),
                   "call", "call_done")

\* the runtime type the validators expect of each top-level field
TopLevelType ==
    ("id" :> "str") @@ ("name" :> "str") @@ ("kind" :> "str") @@ ("description" :> "str")
    @@ ("severity" :> "str") @@ ("enabled" :> "bool") @@ ("query" :> "str")
    @@ ("queryFrequency" :> "str") @@ ("queryPeriod" :> "str")
    @@ ("triggerOperator" :> "str") @@ ("triggerThreshold" :> "int")
    @@ ("entityMappings" :> "list") @@ ("tactics" :> "list")
    @@ ("relevantTechniques" :> "list") @@ ("version" :> "str")
    @@ ("eventGroupingSettings" :> "dict") @@ ("customDetails" :> "dict")
    @@ ("alertDetailsOverride" :> "dict") @@ ("incidentConfiguration" :> "dict")

\* one value of each runtime type a YAML document yields, null aside
TypedValues ==
    {IntV(5), IntV(0), BoolV(TRUE), StrV(<<"x">>), ListV(<<IntV(1)>>),
     DictV(Key("k", IntV(1)))}

\* ConstraintRule with one top-level field of an unexpected type
MalformedTopLevel ==
    UNION {{With(ConstraintRule, f, v) : v \in {w \in TypedValues : w.t # TopLevelType[f]}} :
            f \in DOMAIN TopLevelType}

\* a value of an unexpected type inside entityMappings: the entry, its
\* entityType, its fieldMappings, a field mapping, its identifier or its
\* columnName
MalformedEntityMappings ==
    {ListV(<<v>>) : v \in {w \in TypedValues : w.t # "dict"}}
    \cup {ListV(<<DictV(Key("entityType", v)
                        @@ Key("fieldMappings", ListV(<<FieldMapping(NameId, ColC)>>)))>>) :
            v \in {w \in TypedValues : w.t # "str"}}
    \cup {ListV(<<DictV(Key("entityType", StrV(AccountT)) @@ Key("fieldMappings", v))>>) :
            v \in {w \in TypedValues : w.t # "list"}}
    \cup {ListV(<<DictV(Key("entityType", StrV(AccountT))
                        @@ Key("fieldMappings", ListV(<<v>>)))>>) :
            v \in {w \in TypedValues : w.t # "dict"}}
    \cup {ListV(<<EntityMapping(AccountT,
                    <<DictV(Key("identifier", v) @@ Key("columnName", StrV(ColC)))>>)>>) :
            v \in {w \in TypedValues : w.t # "str"}}
    \cup {ListV(<<EntityMapping(AccountT,
                    <<DictV(Key("identifier", StrV(NameId)) @@ Key("columnName", v))>>)>>) :
            v \in {w \in TypedValues : w.t # "str"}}

\* a value of an unexpected type inside the other nested fields
MalformedNested ==
    {With(ConstraintRule, "tactics", ListV(<<v>>)) : v \in {w \in TypedValues : w.t # "str"}}
    \cup {With(ConstraintRule, "relevantTechniques", ListV(<<v>>)) :
            v \in {w \in TypedValues : w.t # "str"}}
    \cup {With(ConstraintRule, "eventGroupingSettings", DictV(Key("aggregationKind", v))) :
            v \in {w \in TypedValues : w.t # "str"}}
    \cup {With(ConstraintRule, "alertDetailsOverride", DictV(Key(k, v))) :
            k \in {"alertDisplayNameFormat", "alertDescriptionFormat"},
            v \in {w \in TypedValues : w.t # "str"}}
    \cup {With(ConstraintRule, "incidentConfiguration", Grouping(v)) :
            v \in {w \in TypedValues : w.t # "dict"}}
    \cup {With(ConstraintRule, "incidentConfiguration", Lookback(BoolV(TRUE), v)) :
            v \in {w \in TypedValues : w.t # "str"}}
    \cup {With(ConstraintRule, "incidentConfiguration", Lookback(v, StrV(<<"5","h">>))) :
            v \in {w \in TypedValues : w.t # "bool"}}

MalformedRecords ==
    MalformedTopLevel \cup MalformedNested
    \cup {With(ConstraintRule, "entityMappings", m) : m \in MalformedEntityMappings}

InitMalformed ==
    /\ \E name \in ValidatorNames : BeforeCall(name, "call")
    /\ rule_data \in MalformedRecords

NextMalformed == AnyCall

SpecMalformed == InitMalformed /\ [][NextMalformed]_vars

\* C21: no validator raises on a field of an unexpected runtime type: for
\* every validator and every record in which one field, top-level or nested,
\* holds such a value, validate returns a list of diagnostics
MalformedTypeNeverRaises ==
    pc = "call_done" => ~calls[1].raised

(***************************************************************************)
(* Every validator class applied to a record with fields removed.          *)
(***************************************************************************)
\* how many top-level fields are removed from the full record, and how many
\* are kept of it
MaxRemoved == 2
MaxKept == 2

Restrict(rule, keys) == [k \in keys |-> rule[k]]

\* ConstraintRule without up to MaxRemoved of its fields, and with no more
\* than MaxKept of them (the empty record among these)
TopLevelRemovals ==
    {Restrict(ConstraintRule, DOMAIN ConstraintRule \ K) :
        K \in {S \in SUBSET DOMAIN ConstraintRule : Cardinality(S) <= MaxRemoved}}
    \cup {Restrict(ConstraintRule, K) :
        K \in {S \in SUBSET DOMAIN ConstraintRule : Cardinality(S) <= MaxKept}}

\* a mapping with any subset of its keys removed
Removals(d) == {DictV(Restrict(d, K)) : K \in SUBSET DOMAIN d}

\* entityMappings with keys removed from the entry and from its field mapping
EntityMappingRemovals ==
    {ListV(<<e>>) : e \in Removals(EntityMapping(AccountT, <<FieldMapping(NameId, ColC)>>).d)}
    \cup {ListV(<<EntityMapping(AccountT, <<m>>)>>) :
            m \in Removals(FieldMapping(NameId, ColC).d)}

\* the nested mappings with keys removed
NestedRemovals ==
    {With(ConstraintRule, "entityMappings", m) : m \in EntityMappingRemovals}
    \cup {With(ConstraintRule, "incidentConfiguration", c) :
            c \in {DictV(EmptyDict)}
                  \cup {Grouping(g) :
                          g \in Removals(Key("enabled", BoolV(TRUE))
                                         @@ Key("lookbackDuration", StrV(<<"5","h">>)))}}
    \cup {With(ConstraintRule, f, DictV(EmptyDict)) :
            f \in {"eventGroupingSettings", "customDetails", "alertDetailsOverride"}}

RemovalRecords == TopLevelRemovals \cup NestedRemovals

InitAbsent ==
    /\ \E name \in ValidatorNames : BeforeCall(name, "call")
    /\ rule_data \in RemovalRecords

NextAbsent == AnyCall

SpecAbsent == InitAbsent /\ [][NextAbsent]_vars

\* C22: no validator raises because a field is absent: for every validator
\* and every record obtained by removing top-level or nested fields, the
\* empty record included, validate returns a list of diagnostics
AbsentFieldNeverRaises ==
    pc = "call_done" => ~calls[1].raised

\* the schema validator has returned its required-field errors for the empty
\* record
AbsentFieldNeverRaisesWitness ==
    /\ pc = "call_done"
    /\ DOMAIN rule_data = {}
    /\ calls[1].validator = "Schema Validator"
    /\ ~calls[1].raised
    /\ calls[1].returned > 0

(***************************************************************************)
(* KQLValidator.validate applied to one record.  The native parser is a    *)
(* function of the query text: the queries below stand for the behaviours  *)
(* Parse, ParseAndAnalyze and ResultType.Columns can show.                 *)
(***************************************************************************)
ColE == <<"E">>

QueryClean == <<"c","l","e","a","n">>
QuerySyntaxError == <<"s","y","n","t","a","x"," ","e","r","r","o","r">>
QuerySyntaxWarning == <<"s","y","n","t","a","x"," ","w","a","r","n","i","n","g">>
QueryParseRaises == <<"p","a","r","s","e"," ","r","a","i","s","e","s">>
QueryNoColumns == <<"n","o"," ","c","o","l","u","m","n","s">>
QueryColumnsRaise == <<"c","o","l","u","m","n","s"," ","r","a","i","s","e">>
QueryAnalyzeRaises == <<"a","n","a","l","y","z","e"," ","r","a","i","s","e","s">>
QuerySemanticDiagnostics == <<"s","e","m","a","n","t","i","c"," ","d","i","a","g","n","o","s","t","i","c","s">>
QueryNothingWorks == <<"a","n","a","l","y","z","e"," ","a","n","d"," ","c","o","l","u","m","n","s"," ","r","a","i","s","e">>

Inferred(names) == [raises |-> FALSE, names |-> names]
NotInferred == [raises |-> TRUE, names |-> {}]

\* what the parser does for each query
ParserFor(query) ==
    CASE query = QueryClean ->
            KqlEnv(ParserReturns(<<>>), ParserReturns(<<>>), Inferred({ColC, ColD}))
      [] query = QuerySyntaxError ->
            KqlEnv(ParserReturns(<<ParserDiag("warning", FALSE), ParserDiag("error", FALSE)>>),
                   ParserReturns(<<ParserDiag("error", TRUE)>>), Inferred({ColC}))
      [] query = QuerySyntaxWarning ->
            KqlEnv(ParserReturns(<<ParserDiag("warning", FALSE)>>),
                   ParserReturns(<<ParserDiag("error", TRUE)>>), Inferred({ColC}))
      [] query = QueryParseRaises ->
            KqlEnv(ParserRaises, ParserRaises, NotInferred)
      [] query = QueryNoColumns ->
            KqlEnv(ParserReturns(<<>>), ParserReturns(<<>>), Inferred({}))
      [] query = QueryColumnsRaise ->
            KqlEnv(ParserReturns(<<>>), ParserReturns(<<>>), NotInferred)
      [] query = QueryAnalyzeRaises ->
            KqlEnv(ParserReturns(<<>>), ParserRaises, Inferred({ColC, ColD}))
      [] query = QuerySemanticDiagnostics ->
            KqlEnv(ParserReturns(<<ParserDiag("suggestion", FALSE)>>),
                   ParserReturns(<<ParserDiag("error", TRUE), ParserDiag("warning", TRUE),
                                   ParserDiag("error", FALSE)>>),
                   Inferred({ColC}))
      [] OTHER ->
            KqlEnv(ParserReturns(<<>>), ParserRaises, NotInferred)

Queries ==
    {QueryClean, QuerySyntaxError, QuerySyntaxWarning, QueryParseRaises, QueryNoColumns,
     QueryColumnsRaise, QueryAnalyzeRaises, QuerySemanticDiagnostics, QueryNothingWorks}

\* entity mappings whose columns are, or are not, among the output columns
KqlEntityMappings ==
    {Absent, ListV(<<>>),
     OneEntity(AccountT, NameId),
     ListV(<<EntityMapping(AccountT, <<FieldMapping(NameId, ColE)>>)>>),
     ListV(<<EntityMapping(AccountT, <<FieldMapping(NameId, ColE), FieldMapping(FooId, ColD),
                                       FieldMapping(<<"S","i","d">>, <<"F">>)>>),
             EntityMapping(<<"I","P">>, <<FieldMapping(<<"A","d","d","r","e","s","s">>, <<"G">>)>>)>>),
     ListV(<<EntityMapping(<<"I","P">>, <<FieldMapping(<<"A","d","d","r","e","s","s">>, <<"G">>)>>),
             EntityMapping(AccountT, <<FieldMapping(NameId, ColC), FieldMapping(FooId, ColE)>>)>>),
     ListV(<<EntityMapping(AccountT, <<FieldMapping(NameId, ColE), StrV(<<"x">>),
                                       FieldMapping(FooId, <<"F">>)>>)>>),
     ListV(<<EntityMapping(AccountT, <<DictV(Key("identifier", StrV(NameId)))>>)>>),
     ListV(<<StrV(<<"x">>)>>),
     StrV(<<"x">>)}

KqlRecords ==
    {WithOptional(With(GoodRule, "query", StrV(q)), "entityMappings", m) :
        q \in Queries, m \in KqlEntityMappings}
    \cup {WithOptional(GoodRule, "query", q) : q \in {Absent, NoneV, StrV(<<>>), IntV(5)}}

\* a KQLValidator with or without a global state, about to be called
InitKql ==
    /\ dll_loaded = TRUE
    /\ load_attempts = 1
    /\ linters = 1
    /\ notices = 0
    /\ validators = <<"KQL Validator">>
    /\ kql_validator \in {[present |-> TRUE, global_state |-> g] : g \in BOOLEAN}
    /\ store = [f \in Files |-> Unloadable("missing")]
    /\ pc = "kql"
    /\ mode = "none"
    /\ yaml_files = <<>>
    /\ all_yaml_files = NoFiles
    /\ file_idx = 0
    /\ file_path = 1
    /\ rule_data \in KqlRecords
    /\ v_idx = 1
    /\ pending = <<>>
    /\ result = NewResult(0)
    /\ results = <<>>
    /\ calls = <<>>

\* the query of the record when it is a string, and the parser's behaviour
\* for it
QueryText ==
    IF "query" \in DOMAIN rule_data /\ rule_data["query"].t = "str"
    THEN rule_data["query"].s ELSE <<>>
Parser == ParserFor(QueryText)

KqlCall ==
    Called("KQL Validator", KQLValidate(rule_data, kql_validator.global_state, Parser),
           "kql", "kql_done")

NextKql == KqlCall

SpecKql == InitKql /\ [][NextKql]_vars

\* the syntax pass found nothing: Parse returned and no diagnostic of it is
\* an error or a warning
SyntaxClean ==
    /\ QueryText # <<>>
    /\ ~Parser.syntax.raises
    /\ \A k \in DOMAIN Parser.syntax.diagnostics :
          Parser.syntax.diagnostics[k].severity \notin {"error", "warning"}

MappingsPresent ==
    "entityMappings" \in DOMAIN rule_data /\ Truthy(rule_data["entityMappings"])

\* no output-column set: the parser raises, or no column is inferred
ColumnsNotExtracted == Parser.columns.raises \/ Parser.columns.names = {}

\* semantic analysis is run and raises
SemanticAnalysisFails == kql_validator.global_state /\ Parser.semantic.raises

HasWarning(errors, text) ==
    \E k \in DOMAIN errors :
        errors[k].severity = "warning" /\ errors[k].message.text = text
HasError(errors, text) ==
    \E k \in DOMAIN errors :
        errors[k].severity = "error" /\ errors[k].message.text = text

\* C23: after a clean syntax pass, a failed extraction of the output columns
\* (entity mappings being present) and a failed semantic analysis are each
\* reported as a warning; the validator returns, and reports neither as an
\* error
ExtractionFailureIsAWarning ==
    (pc = "kql_done" /\ SyntaxClean) =>
        /\ ~calls[1].raised
        /\ SemanticAnalysisFails =>
              /\ HasWarning(pending, "Semantic validation failed")
              /\ ~HasError(pending, "Semantic validation failed")
        /\ (MappingsPresent /\ ColumnsNotExtracted) =>
              /\ HasWarning(pending, "Could not validate entity columns")
              /\ ~HasError(pending, "Could not validate entity columns")

\* the syntax pass reports an error: Parse raises, or one of its diagnostics
\* is an error
SyntaxError ==
    /\ QueryText # <<>>
    /\ \/ Parser.syntax.raises
       \/ \E k \in DOMAIN Parser.syntax.diagnostics :
             Parser.syntax.diagnostics[k].severity = "error"

SyntaxTexts == {"KQL syntax error", "KQL syntax warning", "Failed to parse KQL query"}

\* an output-column set was inferred
ColumnsInferred == ~Parser.columns.raises /\ Parser.columns.names # {}

\* every entity mapping and field mapping of the record is a mapping, and
\* every columnName a string
MappingsWellFormed ==
    /\ "entityMappings" \in DOMAIN rule_data
    /\ rule_data["entityMappings"].t = "list"
    /\ \A i \in DOMAIN EntityItems :
          /\ EntityItems[i].t = "dict"
          /\ "fieldMappings" \in DOMAIN EntityItems[i].d
          /\ EntityItems[i].d["fieldMappings"].t = "list"
          /\ \A j \in DOMAIN MappingItems(i) :
                /\ MappingItems(i)[j].t = "dict"
                /\ "columnName" \in DOMAIN MappingItems(i)[j].d
                    => MappingItems(i)[j].d["columnName"].t = "str"

\* field mapping j of entity i maps a column the query does not produce
ColumnAbsent(i, j) ==
    /\ "columnName" \in DOMAIN MappingItems(i)[j].d
    /\ MappingItems(i)[j].d["columnName"].s # <<>>
    /\ MappingItems(i)[j].d["columnName"].s \notin Parser.columns.names

\* the positions <<i, j>> of the absent columns, 0-based, by entity then by
\* field mapping
AbsentColumnsOf(i) ==
    LET all == [j \in DOMAIN MappingItems(i) |-> j]
        absent == SelectSeq(all, LAMBDA j : ColumnAbsent(i, j))
    IN  [k \in DOMAIN absent |-> <<i - 1, absent[k] - 1>>]
AbsentColumns == Flatten([i \in DOMAIN EntityItems |-> AbsentColumnsOf(i)])

\* the errors of the column cross-check among the diagnostics returned
ColumnErrors ==
    SelectSeq(pending, LAMBDA e :
        e.field.name = "entityMappings[i].fieldMappings[j].columnName")

Malformed(field) ==
    /\ FieldValue(rule_data, field) \notin {Absent, NoneV}
    /\ ~IsDuration(FieldValue(rule_data, field))

FormatTexts == {"has invalid format", "must be a string"}

Other(field) == IF field = "queryFrequency" THEN "queryPeriod" ELSE "queryFrequency"

\* the diagnostics on a field, and those among them that compare minutes
DiagnosticsOn(errors, field) == SelectSeq(errors, LAMBDA e : e.field = Field(field))
IsComparison(e) ==
    e.message.text \in {"queryFrequency cannot exceed queryPeriod",
                        "queryPeriod exceeds maximum of 14 days"}

\* C25: each of queryFrequency and queryPeriod that is present but is no
\* <int><unit> with unit m, h or d yields exactly one format error on that
\* field and takes part in no numeric comparison, while the check that
\* depends on the other field alone still runs: a queryPeriod above 14 days
\* beside a malformed queryFrequency still gets its error
MalformedDurationIsFieldLocal ==
    pc = "timing_done" =>
        \A field \in {"queryFrequency", "queryPeriod"} :
            Malformed(field) =>
                /\ ~calls[1].raised
                /\ Len(SelectSeq(DiagnosticsOn(pending, field),
                                 LAMBDA e : ~IsComparison(e))) = 1
                /\ \A k \in DOMAIN DiagnosticsOn(pending, field) :
                      LET e == DiagnosticsOn(pending, field)[k]
                      IN  /\ e.severity = "error"
                          /\ e.message.text \in FormatTexts
                /\ ~HasError(pending, "queryFrequency cannot exceed queryPeriod")
                /\ (field = "queryFrequency"
                    /\ IsDuration(FieldValue(rule_data, "queryPeriod"))
                    /\ MinutesOf(FieldValue(rule_data, "queryPeriod")) > 20160)
                        => HasError(pending, "queryPeriod exceeds maximum of 14 days")

(***************************************************************************)
(* The classification loop of validate_file, seen from the outcome.        *)
(***************************************************************************)
\* the entry a returned diagnostic is recorded as
Recorded(validator_name, error) ==
    [validator |-> validator_name,
     severity |-> IF SeverityLower(DiagGet(error, "severity", "error")) = "warning"
                  THEN "warning" ELSE "error",
     message |-> DiagGet(error, "message", Msg("Unknown error")),
     field |-> DiagGet(error, "field", None)]

\* the diagnostics the calls made so far have handed to the loop: those
\* returned, and one for each call that raised
RECURSIVE Handed(_)
Handed(cs) ==
    IF cs = <<>> THEN 0
    ELSE (IF Head(cs).raised THEN 1 ELSE Head(cs).returned) + Handed(Tail(cs))

\* a record is loaded and its validators are being run, or have been
RecordLoaded ==
    pc \in {"validators", "classify", "return"} /\ store[file_path].kind = "mapping"

\* a call returns its diagnostics to the loop, or raises and leaves one error
CallHandsOver ==
    pc = "validators" =>
        /\ Len(calls') = Len(calls) + 1
        /\ calls'[Len(calls')].validator = validators[v_idx]
        /\ IF calls'[Len(calls')].raised
           THEN /\ Len(result'.errors) = Len(result.errors) + 1
                /\ SubSeq(result'.errors, 1, Len(result.errors)) = result.errors
                /\ result'.errors[Len(result'.errors)].validator = validators[v_idx]
                /\ result'.warnings = result.warnings
                /\ pending' = <<>>
           ELSE /\ result' = result
                /\ Len(pending') = calls'[Len(calls')].returned

\* the loop takes the first diagnostic not yet recorded and appends it to
\* one list, under the name of the validator that returned it
OneRecorded ==
    pc = "classify" =>
        /\ pending' = Tail(pending)
        /\ v_idx' \in {v_idx, v_idx + 1}
        /\ IF SeverityLower(DiagGet(Head(pending), "severity", "error")) = "warning"
           THEN /\ result'.warnings
                     = Append(result.warnings, Recorded(validators[v_idx], Head(pending)))
                /\ result'.errors = result.errors
           ELSE /\ result'.errors
                     = Append(result.errors, Recorded(validators[v_idx], Head(pending)))
                /\ result'.warnings = result.warnings

\* C26: the classification is a partition that conserves diagnostics: every
\* diagnostic a validator returns is recorded exactly once, in return order,
\* under that validator's name, among the warnings when its severity in
\* lower case is 'warning' and among the errors otherwise, and a validator
\* that raises leaves one error; so the errors and the warnings of the
\* outcome, with the diagnostics still to be recorded, number the diagnostics
\* returned plus the validators that raised.
ClassificationConserves ==
    /\ [][CallHandsOver /\ OneRecorded]_vars
    /\ [](RecordLoaded =>
            /\ Len(result.errors) + Len(result.warnings) + Len(pending) = Handed(calls)
            /\ pc = "return" => pending = <<>>
            /\ \A k \in 1..Len(result.errors) : result.errors[k].severity = "error"
            /\ \A k \in 1..Len(result.warnings) : result.warnings[k].severity = "warning")

\* an outcome is complete in which a validator raised and the others
\* returned both errors and warnings
ClassificationConservesWitness ==
    /\ pc = "return"
    /\ RecordLoaded
    /\ \E i \in 1..Len(calls) : calls[i].raised
    /\ \E i \in 1..Len(calls) : calls[i].returned > 1
    /\ result.warnings # <<>>
    /\ Len(result.errors) > 2

\* s is the beginning of t
IsPrefix(s, t) == Len(s) <= Len(t) /\ SubSeq(t, 1, Len(s)) = s

\* the outcome being built stays the same object: every step but the one
\* that constructs the outcome of the next file
SameOutcome == pc # "load"

\* C27: a per-file outcome is append-only and its pass flag is monotone: no
\* operation removes or reorders an entry of errors or of warnings, and once
\* passed is false it is never true again for that outcome; an outcome that
\* was returned is not touched again.
OutcomeAppendOnly ==
    [][/\ SameOutcome =>
            /\ result'.file_path = result.file_path
            /\ IsPrefix(result.errors, result'.errors)
            /\ IsPrefix(result.warnings, result'.warnings)
            /\ ~result.passed => ~result'.passed
       /\ IsPrefix(results, results')]_vars

\* an outcome that has failed and holds a warning is about to receive a
\* further warning, after another outcome was returned
OutcomeAppendOnlyWitness ==
    /\ pc = "classify"
    /\ results # <<>>
    /\ ~result.passed
    /\ result.warnings # <<>>
    /\ pending # <<>>
    /\ Head(pending).severity = "warning"

\* the errors of an outcome that a validator reported on a field
ErrorsBy(r, validator_name, field) ==
    SelectSeq(r.errors, LAMBDA e : e.validator = validator_name /\ e.field = Field(field))

\* C28: for a loaded record without 'id' the outcome under the linter's
\* validator list holds two separate errors on 'id', one of the identifier
\* validator and one of the schema validator's required-field pass: the
\* early return of the first does not suppress the report of the second.
MissingIdReportedTwice ==
    (pc = "return" /\ store[file_path].kind = "mapping" /\ LacksId) =>
        /\ Len(ErrorsBy(result, "GUID Validator", "id")) = 1
        /\ Len(ErrorsBy(result, "Schema Validator", "id")) = 1
        /\ ErrorsBy(result, "Schema Validator", "id")[1].message.text
              = "Missing required field"
        /\ Len(SelectSeq(result.errors, LAMBDA e : e.field = Field("id"))) = 2
        /\ \A k \in 1..Len(result.warnings) : result.warnings[k].field # Field("id")
        /\ ~result.passed

\* the outcome of a record without 'id' is complete, in a directory run in
\* which the identifier validator was given the sibling list
MissingIdReportedTwiceWitness ==
    /\ pc = "return"
    /\ mode = "directory"
    /\ Len(yaml_files) >= 2
    /\ store[file_path].kind = "mapping"
    /\ LacksId
    /\ Len(calls) >= 4

(***************************************************************************)
(* SchemaValidator.validate applied to records in which fields hold null.  *)
(***************************************************************************)
MaxNulled == 2

\* the mapping d with null at path[k..], the mappings on the way created
\* where they are missing
RECURSIVE NullAt(_, _, _)
NullAt(d, path, k) ==
    IF k = Len(path) THEN With(d, path[k], NoneV)
    ELSE With(d, path[k],
              DictV(NullAt(IF path[k] \in DOMAIN d /\ d[path[k]].t = "dict"
                           THEN d[path[k]].d ELSE EmptyDict,
                           path, k + 1)))

\* the sets of at most n positions of the expected-type map
RECURSIVE PathSets(_)
PathSets(n) ==
    IF n = 0 THEN {{}}
    ELSE PathSets(n - 1)
         \cup {T \cup {i} : T \in PathSets(n - 1), i \in 1..Len(EXPECTED_TYPES)}

\* the record with null at each of the paths
RECURSIVE NullAll(_, _)
NullAll(rule, positions) ==
    IF positions = {} THEN rule
    ELSE NullAll(NullAt(rule, EXPECTED_TYPES[CHOOSE i \in positions : TRUE].path, 1),
                 positions \ {CHOOSE i \in positions : TRUE})

NullRecords ==
    {NullAll(rule, positions) :
        rule \in {GoodRule, BadRule, EmptyDict}, positions \in PathSets(MaxNulled)}

InitNull ==
    /\ BeforeCall("Schema Validator", "schema")
    /\ rule_data \in NullRecords

SpecNull == InitNull /\ [][NextSchema]_vars

\* the key at the end of the path is present and holds null
NullLeaf(i) == LeafOf(DictV(rule_data), EXPECTED_TYPES[i].path, 1) = NoneV

\* C29: a field whose key is present with a null value gets no schema
\* diagnostic: the required-field pass takes it as present and the type pass
\* takes it as absent, for every required field and for every dot-path of
\* the expected-type map.
NullFieldNoDiagnostic ==
    pc = "schema_done" =>
        /\ ~calls[1].raised
        /\ \A k \in 1..Len(REQUIRED_FIELDS) :
              (REQUIRED_FIELDS[k] \in DOMAIN rule_data
               /\ rule_data[REQUIRED_FIELDS[k]] = NoneV)
                  => ~HasDiagnosticOn(pending, Field(REQUIRED_FIELDS[k]))
        /\ \A i \in 1..Len(EXPECTED_TYPES) :
              NullLeaf(i) => ~HasDiagnosticOn(pending, Field(EXPECTED_TYPES[i].name))

\* the schema validator ran on a record with a null required field and a
\* null leaf three segments down, and reported other fields
NullFieldNoDiagnosticWitness ==
    /\ pc = "schema_done"
    /\ \E k \in 1..Len(REQUIRED_FIELDS) :
          REQUIRED_FIELDS[k] \in DOMAIN rule_data /\ rule_data[REQUIRED_FIELDS[k]] = NoneV
    /\ \E i \in 1..Len(EXPECTED_TYPES) : Len(EXPECTED_TYPES[i].path) = 3 /\ NullLeaf(i)
    /\ pending # <<>>

(***************************************************************************)
(* The run under the assumption that every load and every validator call   *)
(* returns or raises: a step of the run that can be taken is taken.        *)
(***************************************************************************)
\* validator.validate returns or raises, whatever it returns: the step that
\* is due whenever RunValidator is, without the validator's computation
ValidatorReturnsOrRaises ==
    /\ pc = "validators"
    /\ v_idx <= Len(validators)
    /\ \E raised \in BOOLEAN :
          /\ calls' = Append(calls, Call(validators[v_idx],
                                         IF raised THEN Raised ELSE Returned(<<>>)))
          /\ result' = IF raised THEN ValidatorCrashed(result, validators[v_idx])
                       ELSE result
    /\ pending' = <<>>
    /\ AfterValidator
    /\ UNCHANGED <<store, mode, yaml_files, all_yaml_files, file_idx, file_path,
                   rule_data, results>>
    /\ UNCHANGED linterVars

\* no step of a run that is due is put off for ever: the load returns or
\* raises, the call of the validator that is due returns or raises, and the
\* loops over the diagnostics and over the files go on
SpecLive ==
    /\ Spec
    /\ WF_vars(LoadFile)
    /\ WF_vars(ValidatorReturnsOrRaises)
    /\ WF_vars(Classify)
    /\ WF_vars(ReturnResult)

\* the run goes on to the next file only from the return of validate_file,
\* with every validator of a loaded record called and every diagnostic
\* recorded, and the outcome appended
NextFileAfterReturn ==
    file_idx' # file_idx =>
        /\ file_idx' = file_idx + 1
        /\ file_idx > 0 =>
              /\ pc = "return"
              /\ pending = <<>>
              /\ store[file_path].kind = "mapping" => Len(calls) = Len(validators)
              /\ Len(results') = file_idx
              /\ results'[file_idx].file_path = yaml_files[file_idx]

\* a file is loaded once: the load is for the file after those returned
LoadedOnce ==
    (pc = "load" /\ mode = "directory") =>
        /\ Len(results) = file_idx - 1
        /\ file_path = yaml_files[file_idx]
        /\ pc' # "load"

\* a validator is called once per file: the calls of a file are made one at
\* a time, in the order of the list
CalledOnce ==
    (pc # "load" /\ calls' # calls) =>
        /\ Len(calls') = Len(calls) + 1
        /\ SubSeq(calls', 1, Len(calls)) = calls
        /\ v_idx = Len(calls')
        /\ calls'[Len(calls')].validator = validators[v_idx]

\* the enumerated list names no file twice
NoFileTwice ==
    \A i \in 1..Len(yaml_files) : \A j \in 1..Len(yaml_files) :
        yaml_files[i] = yaml_files[j] => i = j

\* C30: when every load and every validator call returns or raises, a
\* directory run over the enumerated files ends, with each file processed
\* exactly once and one after the other (the next file is not started before
\* every validator of the current one has finished), and with no file and no
\* validator tried again.
DirectoryRunTerminates ==
    /\ (mode = "directory") ~> (pc = "done")
    /\ [][mode' = "directory" => (NextFileAfterReturn /\ LoadedOnce /\ CalledOnce)]_vars
    /\ [](mode = "directory" =>
            /\ NoFileTwice
            /\ Len(results) <= Len(yaml_files)
            /\ pc = "done" =>
                  /\ Len(results) = Len(yaml_files)
                  /\ \A i \in 1..Len(results) : results[i].file_path = yaml_files[i])

\* a directory run over every file has ended, in which every file loaded and
\* each of the five validators was called on the last one
DirectoryRunTerminatesWitness ==
    /\ pc = "done"
    /\ mode = "directory"
    /\ Len(yaml_files) = NumFiles
    /\ \A i \in 1..Len(yaml_files) : store[yaml_files[i]].kind = "mapping"
    /\ Len(calls) = 5
    /\ Len(results) = NumFiles

====
